---- MODULE Spec2Model ----
(***************************************************************************)
(* Consolidation of the per-document clinical records of one person        *)
(* (consolidate_person.consolidate_historias and                           *)
(* ProcessorService._consolidate_historias), the validation that runs on   *)
(* the consolidated record, and the pure validators it relies on.           *)
(*                                                                         *)
(* Conventions.  Python None is None for text fields and NoneNum for       *)
(* numeric fields.  Dates are day ordinals (1, 2, ...); the empty string   *)
(* that the code uses as a default date is NoFecha (0), which sorts below  *)
(* every date exactly as '' sorts below every ISO date string.  Texts that *)
(* the code inspects character by character (diagnosis codes, antecedent   *)
(* descriptions) are tuples of one-character strings.  A Python dict that  *)
(* is built by insertion is a sequence of <<key, value>> pairs in          *)
(* insertion order.  Confidences are in tenths (9 is 0.9).                 *)
(*                                                                         *)
(* The record fields in the state are the ones the selections, the merges  *)
(* of diagnoses, antecedents, exams and recommendations, and the           *)
(* validation read, and two keys of datos_empleado.  incapacidades,        *)
(* remisiones, programas_sve and the file-name metadata are not part of    *)
(* the state.                                                              *)
(***************************************************************************)
EXTENDS Integers, Sequences, FiniteSets, TLC

VARIABLES
    historias,     \* the list of source records handed to the consolidation
    heap,          \* the signos_vitales dict objects, by address
    consolidada,   \* the record returned by the consolidation
    pc,            \* "ready" before the call, "done" after it, "rejected" when
                   \* it raised on an empty list; "idle" when no call is made
    via,           \* entry point that ran: "cli", "service" or "none"
    fallo,         \* TRUE when the try block of the validation raised
    codigo,        \* argument of the diagnosis-code validators
    veredicto,     \* result of the last diagnosis-code validator call
    entrada,       \* arguments of a call to one of the filters or validators
    salida,        \* what that call returned
    almacen,       \* empresa_service: the content of the file at DATA_PATH
    temporal,      \* empresa_service: the content of the .tmp file next to it
    candado,       \* empresa_service: the thread that holds _lock, or Nadie
    hilos          \* empresa_service: per thread, the call it runs and its locals

vars == <<historias, heap, consolidada, pc, via, fallo, codigo, veredicto,
          entrada, salida, almacen, temporal, candado, hilos>>

\* the variables of the company configuration service
almacenVars == <<almacen, temporal, candado, hilos>>

\* the variables of the document pipeline
documentoVars == <<historias, heap, consolidada, pc, via, fallo, codigo,
                  veredicto, entrada, salida>>

\* the threads that serve requests
Hilos == {"h1", "h2"}

\* _lock is held by no thread
Nadie == "nadie"

\* no file at the path
Ausente == [estado |-> "ausente", empresas |-> <<>>, ges |-> <<>>, sve |-> <<>>]

\* a thread that runs no call
HiloLibre == [pc |-> "libre", op |-> "none", args |-> <<>>, data |-> Ausente,
              ret |-> <<>>, error |-> FALSE]

\* the company configuration service right after import: no data file, no
\* temporary file, the lock free, no request being served
SinServicio ==
    /\ almacen = Ausente
    /\ temporal = Ausente
    /\ candado = Nadie
    /\ hilos = [h \in Hilos |-> HiloLibre]

\* ---------------------------------------------------------------- bounds
MaxHistorias == 3      \* records per input (header fields)
MaxDocs == 2           \* records per input (list fields)
MaxItems == 3          \* entries per list of a source record
MaxRecs == 2           \* recommendations per list handed to the filter

\* ------------------------------------------------------------ primitives
None == "None"
NoneNum == -1
NoFecha == 0

Range(s) == {s[i] : i \in DOMAIN s}

SeqsUpTo(S, n) == UNION {[1..k -> S] : k \in 0..n}

\* None for a text held as a tuple of characters
NoneTxt == <<None>>

\* Python truthiness: None and '' are falsy
TruthyStr(v) == v # None /\ v # ""

TruthyTxt(t) == t # NoneTxt /\ t # <<>>

RECURSIVE SumSeq(_)
SumSeq(s) == IF s = <<>> THEN 0 ELSE Head(s) + SumSeq(Tail(s))

\* ------------------------------------------------------ character texts
Lowercase == <<"a","b","c","d","e","f","g","h","i","j","k","l","m",
               "n","o","p","q","r","s","t","u","v","w","x","y","z">>
Uppercase == <<"A","B","C","D","E","F","G","H","I","J","K","L","M",
               "N","O","P","Q","R","S","T","U","V","W","X","Y","Z">>
Digits == <<"0","1","2","3","4","5","6","7","8","9">>

IsUpperChar(c) == c \in Range(Uppercase)
IsLowerChar(c) == c \in Range(Lowercase)
IsAlphaChar(c) == IsUpperChar(c) \/ IsLowerChar(c)
IsDigitChar(c) == c \in Range(Digits)

UpperChar(c) ==
    IF IsLowerChar(c)
    THEN Uppercase[CHOOSE i \in DOMAIN Lowercase : Lowercase[i] = c]
    ELSE c

LowerChar(c) ==
    IF IsUpperChar(c)
    THEN Lowercase[CHOOSE i \in DOMAIN Uppercase : Uppercase[i] = c]
    ELSE c

DigitValue(c) == (CHOOSE i \in DOMAIN Digits : Digits[i] = c) - 1

\* str.upper() and str.lower()
Upper(s) == [i \in DOMAIN s |-> UpperChar(s[i])]
Lower(s) == [i \in DOMAIN s |-> LowerChar(s[i])]

\* str.strip(): drop leading and trailing blanks
RECURSIVE LStrip(_)
LStrip(s) == IF s # <<>> /\ Head(s) = " " THEN LStrip(Tail(s)) ELSE s

RECURSIVE RStrip(_)
RStrip(s) ==
    IF s # <<>> /\ s[Len(s)] = " " THEN RStrip(SubSeq(s, 1, Len(s) - 1)) ELSE s

Strip(s) == RStrip(LStrip(s))

\* ------------------------------------------------ insertion-ordered dict
DictHas(d, k) == \E i \in DOMAIN d : d[i][1] = k

DictGet(d, k) == d[CHOOSE i \in DOMAIN d : d[i][1] = k][2]

\* variant: every write adds an entry, as a list would
DictPutMut(d, k, v) == Append(d, <<k, v>>)

\* d[k] = v: a new key goes last, an existing key keeps its position
DictPut(d, k, v) ==
    IF DictHas(d, k)
    THEN [i \in DOMAIN d |-> IF d[i][1] = k THEN <<k, v>> ELSE d[i]]
    ELSE Append(d, <<k, v>>)

\* list(d.values())
DictValues(d) == [i \in DOMAIN d |-> d[i][2]]

\* the entries of one list field of all the records, in iteration order
RECURSIVE Entradas(_, _)
Entradas(hs, campo) ==
    IF hs = <<>> THEN <<>> ELSE Head(hs)[campo] \o Entradas(Tail(hs), campo)

\* list.sort(key=..., reverse=True): stable, equal keys keep their order
RECURSIVE InsertDesc(_, _, _)
InsertDesc(sorted, x, kx) ==
    IF sorted = <<>> THEN <<x>>
    ELSE IF Head(sorted)[1] >= kx
         THEN <<Head(sorted)>> \o InsertDesc(Tail(sorted), x, kx)
         ELSE <<x>> \o sorted

RECURSIVE SortDescKeyed(_)
SortDescKeyed(pairs) ==
    IF pairs = <<>> THEN <<>>
    ELSE InsertDesc(SortDescKeyed(SubSeq(pairs, 1, Len(pairs) - 1)),
                    pairs[Len(pairs)], pairs[Len(pairs)][1])

\* ------------------------------------------------------------ diagnoses
\* variant: ">=" in place of ">", the last of equal confidences wins
RECURSIVE DiagLoopMut(_, _)
DiagLoopMut(d, diags) ==
    IF diags = <<>> THEN d
    ELSE LET diag == Head(diags)
             cod == diag.codigo_cie10
             d2 == IF ~TruthyTxt(cod) THEN d
                   ELSE IF ~DictHas(d, cod) THEN DictPut(d, cod, diag)
                   ELSE IF diag.confianza >= DictGet(d, cod).confianza
                        THEN DictPut(d, cod, diag)
                        ELSE d
         IN DiagLoopMut(d2, Tail(diags))

\* folds the loop body of merge_diagnosticos over the entries
RECURSIVE DiagLoop(_, _)
DiagLoop(d, diags) ==
    IF diags = <<>> THEN d
    ELSE LET diag == Head(diags)
             cod == diag.codigo_cie10
             d2 == IF ~TruthyTxt(cod) THEN d
                   ELSE IF ~DictHas(d, cod) THEN DictPut(d, cod, diag)
                   ELSE IF diag.confianza > DictGet(d, cod).confianza
                        THEN DictPut(d, cod, diag)
                        ELSE d
         IN DiagLoop(d2, Tail(diags))

merge_diagnosticos(hs) == DictValues(DiagLoop(<<>>, Entradas(hs, "diagnosticos")))

\* ---------------------------------------------------------- antecedents
RECURSIVE AntLoop(_, _)
AntLoop(d, ants) ==
    IF ants = <<>> THEN d
    ELSE LET ant == Head(ants)
             descripcion == Lower(Strip(ant.descripcion))
             key == <<ant.tipo, descripcion>>
             d2 == IF descripcion = <<>> THEN d
                   ELSE IF ~DictHas(d, key) THEN DictPut(d, key, ant)
                   ELSE LET fecha_actual == DictGet(d, key).fecha_aproximada
                            fecha_nueva == ant.fecha_aproximada
                        IN IF fecha_nueva # NoFecha
                              /\ (fecha_actual = NoFecha \/ fecha_nueva > fecha_actual)
                           THEN DictPut(d, key, ant)
                           ELSE d
         IN AntLoop(d2, Tail(ants))

merge_antecedentes(hs) == DictValues(AntLoop(<<>>, Entradas(hs, "antecedentes")))

\* ---------------------------------------------------------------- exams
\* exam.get('fecha_realizacion', ''): the Examen schema names the date
\* field 'fecha'; a dict carries 'fecha_realizacion' only when hand-built
GetFechaRealizacion(exam) ==
    IF "fecha_realizacion" \in DOMAIN exam THEN exam.fecha_realizacion ELSE NoFecha

TxtNormal == <<"n","o","r","m","a","l">>
TxtSinHallazgos == <<"s","i","n"," ","h","a","l","l","a","z","g","o","s">>
TxtSinAlteraciones ==
    <<"s","i","n"," ","a","l","t","e","r","a","c","i","o","n","e","s">>
TxtDentroDeLimites ==
    <<"d","e","n","t","r","o"," ","d","e"," ","l","i","m","i","t","e","s"," ",
      "n","o","r","m","a","l","e","s">>

\* (exam.get(k, '') or '')
OrEmpty(v) == IF v = NoneTxt THEN <<>> ELSE v

_es_examen_relevante(exam) ==
    LET interpretacion == IF exam.interpretacion = None THEN "" ELSE exam.interpretacion
        hallazgos == Strip(OrEmpty(exam.hallazgos_clave))
        resultado == Strip(OrEmpty(exam.resultado))
    IN IF interpretacion \in {"alterado", "critico", "patologico", "anormal"} THEN TRUE
       ELSE IF hallazgos # <<>>
               /\ Lower(hallazgos) \notin {TxtNormal, TxtSinHallazgos, TxtSinAlteraciones}
            THEN TRUE
       ELSE IF resultado # <<>>
               /\ Lower(resultado) \notin {TxtNormal, TxtSinAlteraciones}
            THEN TRUE
       ELSE IF interpretacion = "" /\ (hallazgos # <<>> \/ resultado # <<>>) THEN TRUE
       ELSE IF interpretacion = "normal"
               /\ (hallazgos = <<>>
                   \/ Lower(hallazgos) \in {TxtNormal, TxtSinHallazgos,
                                            TxtSinAlteraciones, TxtDentroDeLimites})
               /\ (resultado = <<>>
                   \/ Lower(resultado) \in {TxtNormal, TxtSinAlteraciones,
                                            TxtDentroDeLimites})
            THEN FALSE
       ELSE TRUE

\* the loop of merge_examenes; filtrar is TRUE for the service, which
\* skips the exams that are not relevant
RECURSIVE ExamLoop(_, _, _)
ExamLoop(d, exams, filtrar) ==
    IF exams = <<>> THEN d
    ELSE LET exam == Head(exams)
             key == <<exam.tipo, GetFechaRealizacion(exam)>>
             d2 == IF ~TruthyStr(exam.tipo) THEN d
                   ELSE IF filtrar /\ ~_es_examen_relevante(exam) THEN d
                   ELSE DictPut(d, key, exam)
         IN ExamLoop(d2, Tail(exams), filtrar)

SortExamenes(lista) ==
    LET keyed == [i \in DOMAIN lista |-> <<GetFechaRealizacion(lista[i]), lista[i]>>]
        sorted == SortDescKeyed(keyed)
    IN [i \in DOMAIN sorted |-> sorted[i][2]]

merge_examenes(hs) ==
    SortExamenes(DictValues(ExamLoop(<<>>, Entradas(hs, "examenes"), FALSE)))

_merge_examenes(hs) ==
    SortExamenes(DictValues(ExamLoop(<<>>, Entradas(hs, "examenes"), TRUE)))

\* ------------------------------------------------- priority partitions
HighPriority == {"hc_completa", "cmo"}

hcs_completas(hs) ==
    SelectSeq(hs, LAMBDA h : h.tipo_documento_fuente \in HighPriority)

examenes_especificos(hs) ==
    SelectSeq(hs, LAMBDA h : h.tipo_documento_fuente = "examen_especifico")

Reversed(s) == [i \in DOMAIN s |-> s[Len(s) + 1 - i]]

\* historia.get(campo) is truthy
Presente(h, campo) ==
    IF campo \in {"fecha_emo", "signos_vitales"}
    THEN h[campo] # 0
    ELSE TruthyStr(h[campo])

\* "for historia in s: if historia.get(campo): ...; break": the position of
\* the first record of s that has the field, 0 when the loop never breaks
Primera(s, campo) ==
    IF \E i \in DOMAIN s : Presente(s[i], campo)
    THEN CHOOSE i \in DOMAIN s :
            /\ Presente(s[i], campo)
            /\ \A j \in 1..(i - 1) : ~Presente(s[j], campo)
    ELSE 0

\* the base record: hcs_completas[0].copy() or historias[0].copy()
BaseCli(hs) ==
    IF hcs_completas(hs) # <<>>
    THEN [hcs_completas(hs)[1] EXCEPT !.tipo_documento_fuente = "hc_completa"]
    ELSE hs[1]

BaseService(hs) ==
    IF hcs_completas(hs) # <<>> THEN hcs_completas(hs)[1] ELSE hs[1]

\* variant: the most recent record of any type that has a block
SelectSignosVitalesMut(hs) ==
    LET todas == Reversed(hs)
    IN IF Primera(todas, "signos_vitales") # 0
       THEN todas[Primera(todas, "signos_vitales")].signos_vitales
       ELSE 0

\* signos_vitales: most recent HC that has a block, else most recent exam
\* document that has one, else None; the value is the address of the block
SelectSignosVitales(hs) ==
    LET hc == Reversed(hcs_completas(hs))
        ex == Reversed(examenes_especificos(hs))
    IN IF Primera(hc, "signos_vitales") # 0
       THEN hc[Primera(hc, "signos_vitales")].signos_vitales
       ELSE IF Primera(ex, "signos_vitales") # 0
            THEN ex[Primera(ex, "signos_vitales")].signos_vitales
            ELSE 0

\* variant: the most recent HC that has the field instead of the first
SelectEmoMut(hs, base, campo) ==
    LET hc == Reversed(hcs_completas(hs))
    IN IF Primera(hc, campo) # 0 THEN hc[Primera(hc, campo)][campo] ELSE base[campo]

\* tipo_emo / fecha_emo: first HC that has the field, else what the base had
SelectEmo(hs, base, campo) ==
    LET hc == hcs_completas(hs)
    IN IF Primera(hc, campo) # 0 THEN hc[Primera(hc, campo)][campo] ELSE base[campo]

\* variant: the loops run forward, the oldest record with an aptitud wins
FuenteAptitudMut(hs, base) ==
    LET hc == hcs_completas(hs)
    IN IF Primera(hc, "aptitud_laboral") # 0
       THEN hc[Primera(hc, "aptitud_laboral")]
       ELSE IF Primera(hs, "aptitud_laboral") # 0
            THEN hs[Primera(hs, "aptitud_laboral")]
            ELSE base

\* the record the aptitud block is copied from: most recent HC with an
\* aptitud, else most recent record of any kind with one, else the base
FuenteAptitud(hs, base) ==
    LET hc == Reversed(hcs_completas(hs))
        todas == Reversed(hs)
    IN IF Primera(hc, "aptitud_laboral") # 0
       THEN hc[Primera(hc, "aptitud_laboral")]
       ELSE IF Primera(todas, "aptitud_laboral") # 0
            THEN todas[Primera(todas, "aptitud_laboral")]
            ELSE base

\* sum(confianzas) / len(confianzas) as the pair <<sum, len>>
ConfianzaPromedio(diags, base) ==
    IF diags = <<>> THEN base.confianza_extraccion
    ELSE <<SumSeq([i \in DOMAIN diags |-> diags[i].confianza]), Len(diags)>>

\* ------------------------------------------------------ diagnosis codes
\* re: ^[A-Z]\d{2}\.\d$  (Field pattern of Diagnostico.codigo_cie10)
PatternCompleto(c) ==
    /\ Len(c) = 5
    /\ IsUpperChar(c[1]) /\ IsDigitChar(c[2]) /\ IsDigitChar(c[3])
    /\ c[4] = "." /\ IsDigitChar(c[5])

\* re: ^[A-Z]\d{2}(\.\d{1,2})?$  (CIE10Validator.CIE10_PATTERN)
CIE10_PATTERN(c) ==
    /\ Len(c) \in {3, 5, 6}
    /\ IsUpperChar(c[1]) /\ IsDigitChar(c[2]) /\ IsDigitChar(c[3])
    /\ Len(c) > 3 => (c[4] = "." /\ \A i \in 5..Len(c) : IsDigitChar(c[i]))

\* upper bound of each chapter's two-digit number (lower bound is 0)
VALID_CHAPTERS ==
    [l \in Range(Uppercase) \ {"U"} |->
        CASE l = "C" -> 97 [] l = "D" -> 89 [] l = "E" -> 90 [] l = "H" -> 95
          [] l = "K" -> 93 [] l = "P" -> 96 [] l = "T" -> 98 [] l = "Y" -> 98
          [] OTHER -> 99]

\* Diagnostico.model_validate on the code: TRUE when no ValidationError
DiagnosticoAcepta(c) ==
    /\ c # NoneTxt
    /\ PatternCompleto(c)
    /\ ~(c = <<>> \/ Len(c) < 5)
    /\ IsAlphaChar(Upper(c)[1]) /\ IsDigitChar(c[2]) /\ IsDigitChar(c[3])

\* CIE10Validator.validate_format: <<es_valido, mensaje>>
validate_format(code) ==
    IF code = <<>> \/ code = NoneTxt THEN <<FALSE, "Codigo vacio">>
    ELSE LET c == Strip(Upper(code))
         IN IF ~CIE10_PATTERN(c) THEN <<FALSE, "Formato invalido">>
            ELSE IF c[1] \notin DOMAIN VALID_CHAPTERS THEN <<FALSE, "Capitulo invalido">>
            ELSE IF 10 * DigitValue(c[2]) + DigitValue(c[3]) > VALID_CHAPTERS[c[1]]
                 THEN <<FALSE, "Numero fuera de rango">>
            ELSE IF "." \notin Range(c) THEN <<TRUE, "Formato corto">>
            ELSE <<TRUE, None>>

\* ---------------------------------------------- alert descriptions
\* the fixed part of each message of validators.py, as a tuple of characters
\* (an accented letter is one token: "o^" is o with an acute accent)
Desc ==
    [PACritica |->
        <<"P","r","e","s","i","o^","n"," ","a","r","t","e","r","i","a","l"," ","c","r","i^","t","i","c","a">>,
     PAElevada |->
        <<"P","r","e","s","i","o^","n"," ","a","r","t","e","r","i","a","l"," ","e","l","e","v","a","d","a">>,
     IMCCritico |->
        <<"I","M","C"," ","c","r","i^","t","i","c","o">>,
     SatCritica |->
        <<"S","a","t","u","r","a","c","i","o^","n"," ","d","e"," ","o","x","i^","g","e","n","o"," ","c","r","i^","t","i","c","a">>,
     SinDiagnosticos |->
        <<"N","o"," ","s","e"," ","e","n","c","o","n","t","r","a","r","o","n"," ","d","i","a","g","n","o^","s","t","i","c","o","s"," ","e","n"," ","l","a"," ","h","i","s","t","o","r","i","a"," ","c","l","i^","n","i","c","a">>,
     CodigoInvalido |->
        <<"C","o^","d","i","g","o"," ","C","I","E","-","1","0"," ","i","n","v","a^","l","i","d","o">>,
     CodigoCorto |->
        <<"C","o^","d","i","g","o"," ","C","I","E","-","1","0"," ","e","n"," ","f","o","r","m","a","t","o"," ","c","o","r","t","o">>,
     ConfianzaBaja |->
        <<"D","i","a","g","n","o^","s","t","i","c","o"," ","c","o","n"," ","c","o","n","f","i","a","n","z","a"," ","b","a","j","a",":"," ">>,
     SinFechaEmo |->
        <<"N","o"," ","s","e"," ","e","n","c","o","n","t","r","o^"," ","l","a"," ","f","e","c","h","a"," ","d","e","l"," ","e","x","a","m","e","n"," ","m","e^","d","i","c","o"," ","o","c","u","p","a","c","i","o","n","a","l">>,
     FechaFueraDeRango |->
        <<"F","e","c","h","a"," ","d","e","l"," ","E","M","O"," ","f","u","e","r","a"," ","d","e"," ","r","a","n","g","o"," ","e","s","p","e","r","a","d","o">>,
     SinAptitud |->
        <<"N","o"," ","s","e"," ","e","n","c","o","n","t","r","o^"," ","e","l"," ","c","o","n","c","e","p","t","o"," ","d","e"," ","a","p","t","i","t","u","d"," ","l","a","b","o","r","a","l">>,
     DiagnosticoDe |->
        <<"D","i","a","g","n","o^","s","t","i","c","o"," ","d","e"," ">>,
     ExamenSinReflejo |->
        <<"s","i","n"," ","r","e","f","l","e","j","o"," ","e","n"," ","d","i","a","g","n","o^","s","t","i","c","o","s",","," ","r","e","c","o","m","e","n","d","a","c","i","o","n","e","s"," ","o"," ","r","e","s","t","r","i","c","c","i","o","n","e","s",":"," ">>,
     RestriccionesSinDx |->
        <<"S","e"," ","e","s","p","e","c","i","f","i","c","a","n"," ","r","e","s","t","r","i","c","c","i","o","n","e","s"," ","p","e","r","o"," ","n","o"," ","h","a","y"," ","d","i","a","g","n","o^","s","t","i","c","o","s"," ","q","u","e"," ","l","a","s"," ","j","u","s","t","i","f","i","q","u","e","n">>]

\* campo_afectado values of validators.py, as texts
Campo ==
    [diagnosticos_i_codigo_cie10 |->
        <<"d","i","a","g","n","o","s","t","i","c","o","s","[","i","]",".","c","o","d","i","g","o","_","c","i","e","1","0">>,
     diagnosticos_i |->
        <<"d","i","a","g","n","o","s","t","i","c","o","s","[","i","]">>,
     diagnosticos |->
        <<"d","i","a","g","n","o","s","t","i","c","o","s">>,
     signos_vitales_presion_arterial |->
        <<"s","i","g","n","o","s","_","v","i","t","a","l","e","s",".","p","r","e","s","i","o","n","_","a","r","t","e","r","i","a","l">>,
     signos_vitales_imc |->
        <<"s","i","g","n","o","s","_","v","i","t","a","l","e","s",".","i","m","c">>,
     signos_vitales_saturacion_oxigeno |->
        <<"s","i","g","n","o","s","_","v","i","t","a","l","e","s",".","s","a","t","u","r","a","c","i","o","n","_","o","x","i","g","e","n","o">>,
     aptitud_laboral |->
        <<"a","p","t","i","t","u","d","_","l","a","b","o","r","a","l">>,
     examenes |->
        <<"e","x","a","m","e","n","e","s">>,
     fecha_emo |->
        <<"f","e","c","h","a","_","e","m","o">>,
     restricciones_especificas |->
        <<"r","e","s","t","r","i","c","c","i","o","n","e","s","_","e","s","p","e","c","i","f","i","c","a","s">>]

\* --------------------------------------------------------------- alerts
Alerta(tipo, severidad, campo, descripcion) ==
    [tipo |-> tipo, severidad |-> severidad,
     campo_afectado |-> campo, descripcion |-> descripcion]

AlertaSinDiagnosticos ==
    Alerta("dato_faltante", "alta", Campo.diagnosticos,
           Desc.SinDiagnosticos)

\* the alerts of one diagnosis in CIE10Validator.validate_diagnosis_list
AlertasDeDiagnostico(diag) ==
    LET r == validate_format(diag.codigo_cie10)
        formato ==
            IF ~r[1]
            THEN <<Alerta("formato_incorrecto", "alta", Campo.diagnosticos_i_codigo_cie10,
                          Desc.CodigoInvalido)>>
            ELSE IF r[2] # None
                 THEN <<Alerta("formato_incorrecto", "baja",
                               Campo.diagnosticos_i_codigo_cie10,
                               Desc.CodigoCorto)>>
                 ELSE <<>>
        confianza ==
            IF diag.confianza < 7
            THEN <<Alerta("dato_faltante", "media", Campo.diagnosticos_i,
                          Desc.ConfianzaBaja \o diag.descripcion)>>
            ELSE <<>>
    IN formato \o confianza

RECURSIVE AlertasDeDiagnosticos(_)
AlertasDeDiagnosticos(diags) ==
    IF diags = <<>> THEN <<>>
    ELSE AlertasDeDiagnostico(Head(diags)) \o AlertasDeDiagnosticos(Tail(diags))

validate_diagnosis_list(diags) ==
    IF diags = <<>> THEN <<AlertaSinDiagnosticos>> ELSE AlertasDeDiagnosticos(diags)


\* ---------------------------------------------------------- vital signs
\* (campo, min, max, campo as text) of validate_signos_vitales; the same limits are the
\* ge/le bounds of the SignosVitales schema.  temperatura and imc in tenths
validaciones ==
    << <<"frecuencia_cardiaca", 40, 200,
          <<"f","r","e","c","u","e","n","c","i","a","_","c","a","r","d","i","a","c","a">>>>,
       <<"frecuencia_respiratoria", 8, 40,
          <<"f","r","e","c","u","e","n","c","i","a","_","r","e","s","p","i","r","a","t","o","r","i","a">>>>,
       <<"temperatura", 350, 420,
          <<"t","e","m","p","e","r","a","t","u","r","a">>>>,
       <<"saturacion_oxigeno", 70, 100,
          <<"s","a","t","u","r","a","c","i","o","n","_","o","x","i","g","e","n","o">>>>,
       <<"peso_kg", 20, 300,
          <<"p","e","s","o","_","k","g">>>>,
       <<"talla_cm", 100, 250,
          <<"t","a","l","l","a","_","c","m">>>>,
       <<"imc", 100, 600,
          <<"i","m","c">>>> >>

FueraDeRango(signos, v) ==
    signos[v[1]] # NoneNum /\ (signos[v[1]] < v[2] \/ signos[v[1]] > v[3])

\* the block after validate_signos_vitales: out-of-range fields set to None
SignosValidados(signos) ==
    [campo \in DOMAIN signos |->
        IF \E i \in DOMAIN validaciones :
              validaciones[i][1] = campo /\ FueraDeRango(signos, validaciones[i])
        THEN NoneNum
        ELSE signos[campo]]

AlertaFueraDeRango(campo) ==
    Alerta("valor_critico", "alta", <<"s","i","g","n","o","s","_","v","i","t","a","l","e","s",".">> \o campo,
           <<"f","u","e","r","a"," ","d","e"," ","r","a","n","g","o"," ","c","l","i^","n","i","c","o"," ","e","s","p","e","r","a","d","o">>)

\* the alerts validate_signos_vitales appends, in table order
RECURSIVE AlertasSignos(_, _)
AlertasSignos(signos, tabla) ==
    IF tabla = <<>> THEN <<>>
    ELSE (IF FueraDeRango(signos, Head(tabla))
          THEN <<AlertaFueraDeRango(Head(tabla)[4])>>
          ELSE <<>>) \o AlertasSignos(signos, Tail(tabla))

\* SignosVitales.model_validate: every numeric field None or within ge/le
SignosVitalesAcepta(signos) ==
    \A i \in DOMAIN validaciones : ~FueraDeRango(signos, validaciones[i])

\* ClinicalValueValidator.validate_vital_signs
validate_vital_signs(signos) ==
    LET pa == signos.presion_arterial
        a_pa == IF pa = <<NoneNum, NoneNum>> THEN <<>>
                ELSE IF pa[1] >= 180 \/ pa[2] >= 110
                     THEN <<Alerta("valor_critico", "alta",
                                   Campo.signos_vitales_presion_arterial, Desc.PACritica)>>
                ELSE IF pa[1] >= 140 \/ pa[2] >= 90
                     THEN <<Alerta("valor_critico", "media",
                                   Campo.signos_vitales_presion_arterial, Desc.PAElevada)>>
                ELSE <<>>
        imc == signos.imc
        a_imc == IF imc = NoneNum \/ imc = 0 THEN <<>>
                 ELSE IF imc < 160 \/ imc >= 400
                      THEN <<Alerta("valor_critico", "alta", Campo.signos_vitales_imc,
                                    Desc.IMCCritico)>>
                      ELSE <<>>
        sat == signos.saturacion_oxigeno
        a_sat == IF sat # NoneNum /\ sat # 0 /\ sat < 90
                 THEN <<Alerta("valor_critico", "alta",
                               Campo.signos_vitales_saturacion_oxigeno, Desc.SatCritica)>>
                 ELSE <<>>
    IN a_pa \o a_imc \o a_sat

\* ------------------------------------------------------ aptitud laboral
VALID_APTITUDES ==
    {"apto", "apto_sin_restricciones", "apto_con_recomendaciones",
     "apto_con_restricciones", "no_apto_temporal", "no_apto_definitivo",
     "pendiente"}

APTITUD_MAPPINGS ==
    {"aplazado", "aplazada", "pendiente_evaluacion", "en_evaluacion", "por_definir"}

\* str(aptitud).lower().strip() on the values the records can hold
AptitudClean(a) == IF a = "Aplazado" THEN "aplazado" ELSE a

\* normalize_aptitud_laboral: <<value written back, alerts appended>>
normalize_aptitud_laboral(aptitud) ==
    IF ~TruthyStr(aptitud) THEN <<aptitud, <<>> >>
    ELSE IF AptitudClean(aptitud) \in APTITUD_MAPPINGS
         THEN <<"pendiente",
                <<Alerta("formato_incorrecto", "baja", Campo.aptitud_laboral,
                         <<"A","p","t","i","t","u","d"," ","l","a","b","o","r","a","l"," ","n","o"," ","e","s","t","a^","n","d","a","r">>)>> >>
    ELSE IF AptitudClean(aptitud) \notin VALID_APTITUDES
         THEN <<"pendiente",
                <<Alerta("formato_incorrecto", "media", Campo.aptitud_laboral,
                         <<"A","p","t","i","t","u","d"," ","l","a","b","o","r","a","l"," ","n","o"," ","r","e","c","o","n","o","c","i","d","a">>)>> >>
    ELSE <<aptitud, <<>> >>


\* --------------------------------------------------------- text search
\* sub in s
Contains(s, sub) ==
    \E i \in 1..(Len(s) - Len(sub) + 1) : SubSeq(s, i, i + Len(sub) - 1) = sub

StartsWith(s, pre) == Len(s) >= Len(pre) /\ SubSeq(s, 1, Len(pre)) = pre

\* unicodedata NFD + dropping the combining marks
Unaccent(t) ==
    CASE t = "a^" -> "a" [] t = "e^" -> "e" [] t = "i^" -> "i" [] t = "o^" -> "o"
      [] t = "u^" -> "u" [] t = "n~" -> "n" [] t = "A^" -> "A" [] t = "E^" -> "E"
      [] t = "I^" -> "I" [] t = "O^" -> "O" [] t = "U^" -> "U" [] t = "N~" -> "N"
      [] OTHER -> t

\* str.lower() on a text that may hold accented letters
LowerTok(t) ==
    CASE t = "A^" -> "a^" [] t = "E^" -> "e^" [] t = "I^" -> "i^" [] t = "O^" -> "o^"
      [] t = "U^" -> "u^" [] t = "N~" -> "n~"
      [] OTHER -> LowerChar(t)

LowerText(s) == [i \in DOMAIN s |-> LowerTok(s[i])]

\* ' '.join(text.split()): runs of blanks become one blank, ends trimmed
RECURSIVE CollapseSpaces(_)
CollapseSpaces(s) ==
    IF Len(s) < 2 THEN s
    ELSE IF s[1] = " " /\ s[2] = " " THEN CollapseSpaces(Tail(s))
    ELSE <<s[1]>> \o CollapseSpaces(Tail(s))

\* validators.normalize_text
normalize_text(text) ==
    LET t == Strip(LowerText(text))
        u == [i \in DOMAIN t |-> Unaccent(t[i])]
    IN Strip(CollapseSpaces(u))

\* text or ""
OrBlank(t) == IF t = NoneTxt THEN <<>> ELSE t

\* ------------------------------------------- diagnosis / exam coherence
VISUAL_PREFIXES == {<<"H","5","2",".">>}

HEARING_PREFIXES == {<<"H","9","0">>, <<"H","9","1">>, <<"H","8","3",".","3">>}

RESPIRATORY_PREFIXES == {<<"J","4","4">>, <<"J","4","5">>, <<"J","6","8">>, <<"J","6","0">>, <<"J","6","1">>, <<"J","6","2">>}

IndicadoresVision ==
    {<<"2","0","/","2","0">>,
     <<"2","0","/","2","5">>,
     <<"c","o","n"," ","c","o","r","r","e","c","c","i","o","n">>,
     <<"c","o","r","r","e","g","i","d","o">>,
     <<"c","o","r","r","e","g","i","d","a">>,
     <<"n","o","r","m","a","l">>,
     <<"d","e","n","t","r","o"," ","d","e"," ","l","i","m","i","t","e","s">>,
     <<"v","i","s","i","o","n"," ","c","o","r","r","e","g","i","d","a">>,
     <<"o","j","o"," ","d","e","r","e","c","h","o"," ","2","0","/","2","0">>,
     <<"o","j","o"," ","i","z","q","u","i","e","r","d","o"," ","2","0","/","2","0">>}

IndicadoresAudicion ==
    {<<"a","u","d","i","c","i","o","n"," ","n","o","r","m","a","l">>,
     <<"a","u","d","i","t","i","v","a","m","e","n","t","e"," ","n","o","r","m","a","l">>,
     <<"b","i","l","a","t","e","r","a","l"," ","n","o","r","m","a","l">>,
     <<"d","e","n","t","r","o"," ","d","e"," ","l","i","m","i","t","e","s"," ","n","o","r","m","a","l","e","s">>,
     <<"s","i","n"," ","p","e","r","d","i","d","a"," ","a","u","d","i","t","i","v","a">>,
     <<"s","i","n"," ","h","i","p","o","a","c","u","s","i","a">>,
     <<"u","m","b","r","a","l","e","s"," ","n","o","r","m","a","l","e","s">>,
     <<"a","u","d","i","o","m","e","t","r","i","a"," ","n","o","r","m","a","l">>}

IndicadoresPulmonar ==
    {<<"f","u","n","c","i","o","n"," ","p","u","l","m","o","n","a","r"," ","n","o","r","m","a","l">>,
     <<"f","u","n","c","i","o","n"," ","r","e","s","p","i","r","a","t","o","r","i","a"," ","n","o","r","m","a","l">>,
     <<"e","s","p","i","r","o","m","e","t","r","i","a"," ","n","o","r","m","a","l">>,
     <<"p","a","t","r","o","n"," ","n","o","r","m","a","l">>,
     <<"s","i","n"," ","o","b","s","t","r","u","c","c","i","o","n">>,
     <<"s","i","n"," ","r","e","s","t","r","i","c","c","i","o","n">>,
     <<"f","e","v","1"," ","n","o","r","m","a","l">>,
     <<"f","v","c"," ","n","o","r","m","a","l">>,
     <<"d","e","n","t","r","o"," ","d","e"," ","l","i","m","i","t","e","s"," ","n","o","r","m","a","l","e","s">>,
     <<"p","a","r","a","m","e","t","r","o","s"," ","n","o","r","m","a","l","e","s">>}

ExamenIndica(exam, indicadores) ==
    LET resultado == normalize_text(OrBlank(exam.resultado))
        hallazgos == normalize_text(OrBlank(exam.hallazgos_clave))
    IN \E ind \in indicadores : Contains(resultado, ind) \/ Contains(hallazgos, ind)

\* variant: the inner loop does not stop at the first exam that matches
RECURSIVE CheckConsistencyMut(_, _, _, _, _)
CheckConsistencyMut(diags, examenes, prefijos, tipo_examen, indicadores) ==
    IF diags = <<>> THEN <<>>
    ELSE LET diag == Head(diags)
             aplica == \E p \in prefijos : StartsWith(diag.codigo_cie10, p)
             coinciden == SelectSeq(examenes,
                                    LAMBDA e : /\ e.tipo = tipo_examen
                                               /\ ExamenIndica(e, indicadores))
         IN (IF aplica
             THEN [i \in DOMAIN coinciden |->
                     Alerta("inconsistencia_diagnostica", "baja", Campo.diagnosticos,
                            Desc.DiagnosticoDe \o diag.descripcion)]
             ELSE <<>>)
            \o CheckConsistencyMut(Tail(diags), examenes, prefijos, tipo_examen,
                                   indicadores)

\* one of _check_visual_consistency, _check_hearing_consistency,
\* _check_respiratory_consistency: one alert per matching diagnosis that
\* has at least one exam of the given type with a normal indicator
RECURSIVE CheckConsistency(_, _, _, _, _)
CheckConsistency(diags, examenes, prefijos, tipo_examen, indicadores) ==
    IF diags = <<>> THEN <<>>
    ELSE LET diag == Head(diags)
             aplica == \E p \in prefijos : StartsWith(diag.codigo_cie10, p)
             hay == \E i \in DOMAIN examenes :
                        /\ examenes[i].tipo = tipo_examen
                        /\ ExamenIndica(examenes[i], indicadores)
         IN (IF aplica /\ hay
             THEN <<Alerta("inconsistencia_diagnostica", "baja", Campo.diagnosticos,
                           Desc.DiagnosticoDe \o diag.descripcion)>>
             ELSE <<>>)
            \o CheckConsistency(Tail(diags), examenes, prefijos, tipo_examen, indicadores)

validate_diagnosis_exam_consistency(h) ==
    CheckConsistency(h.diagnosticos, h.examenes, VISUAL_PREFIXES,
                     "optometria", IndicadoresVision)
    \o CheckConsistency(h.diagnosticos, h.examenes, HEARING_PREFIXES,
                        "audiometria", IndicadoresAudicion)
    \o CheckConsistency(h.diagnosticos, h.examenes, RESPIRATORY_PREFIXES,
                        "espirometria", IndicadoresPulmonar)

\* exam types as the texts searched for by validate_examenes_criticos_sin_reflejo
TipoTexto(tipo) ==
    CASE tipo = "laboratorio" -> <<"l","a","b","o","r","a","t","o","r","i","o">>
      [] tipo = "imagenologia" -> <<"i","m","a","g","e","n","o","l","o","g","i","a">>
      [] tipo = "funcional" -> <<"f","u","n","c","i","o","n","a","l">>
      [] tipo = "audiometria" -> <<"a","u","d","i","o","m","e","t","r","i","a">>
      [] tipo = "espirometria" -> <<"e","s","p","i","r","o","m","e","t","r","i","a">>
      [] tipo = "optometria" -> <<"o","p","t","o","m","e","t","r","i","a">>
      [] tipo = "electrocardiograma" -> <<"e","l","e","c","t","r","o","c","a","r","d","i","o","g","r","a","m","a">>
      [] tipo = "otro" -> <<"o","t","r","o">>
      [] OTHER -> <<>>

RECURSIVE validate_examenes_criticos_sin_reflejo_loop(_, _)
validate_examenes_criticos_sin_reflejo_loop(examenes, h) ==
    IF examenes = <<>> THEN <<>>
    ELSE LET exam == Head(examenes)
             critico == exam.interpretacion \in {"critico", "alterado"}
             tipo == TipoTexto(exam.tipo)
             tiene_diagnostico ==
                 \E i \in DOMAIN h.diagnosticos :
                     Contains(LowerText(h.diagnosticos[i].descripcion), tipo)
             tiene_recomendacion ==
                 \E i \in DOMAIN h.recomendaciones :
                     Contains(LowerText(h.recomendaciones[i].descripcion), tipo)
             tiene_restriccion ==
                 Contains(LowerText(OrBlank(h.restricciones_especificas)), tipo)
         IN (IF critico /\ ~(tiene_diagnostico \/ tiene_recomendacion \/ tiene_restriccion)
             THEN <<Alerta("inconsistencia_diagnostica", "baja", Campo.examenes,
                           Desc.ExamenSinReflejo \o tipo)>>
             ELSE <<>>)
            \o validate_examenes_criticos_sin_reflejo_loop(Tail(examenes), h)

validate_examenes_criticos_sin_reflejo(h) ==
    validate_examenes_criticos_sin_reflejo_loop(h.examenes, h)


\* ------------------------------------------------- schema (Pydantic)
TIPOS_DOCUMENTO == {"hc_completa", "cmo", "examen_especifico"}

TIPOS_EMO ==
    {"preingreso", "periodico", "cambio_ocupacion", "post_incapacidad",
     "retiro", "seguimiento"}

TIPOS_EXAMEN ==
    {"laboratorio", "imagenologia", "funcional", "audiometria", "espirometria",
     "optometria", "electrocardiograma", "otro"}

TIPOS_ANTECEDENTE ==
    {"patologico", "quirurgico", "traumatologico", "ocupacional", "toxicologico",
     "alergico", "farmacologico", "gineco_obstetrico", "familiar"}

TIPOS_RECOMENDACION ==
    {"remision_especialista", "examen_complementario", "inclusion_sve",
     "tratamiento", "restriccion_laboral", "ajuste_ergonomico", "seguimiento"}

\* HistoriaClinicaEstructurada.model_validate(dict) does not raise
ModelValidateAcepta(c, hp) ==
    /\ c.tipo_documento_fuente \in TIPOS_DOCUMENTO
    /\ c.tipo_emo = None \/ c.tipo_emo \in TIPOS_EMO
    /\ c.signos_vitales = 0 \/ SignosVitalesAcepta(hp[c.signos_vitales])
    /\ \A i \in DOMAIN c.diagnosticos :
          /\ DiagnosticoAcepta(c.diagnosticos[i].codigo_cie10)
          /\ c.diagnosticos[i].confianza \in 0..10
    /\ \A i \in DOMAIN c.examenes :
          /\ c.examenes[i].tipo \in TIPOS_EXAMEN
          /\ c.examenes[i].interpretacion \in {None, "normal", "alterado", "critico"}
    /\ \A i \in DOMAIN c.antecedentes : c.antecedentes[i].tipo \in TIPOS_ANTECEDENTE
    /\ \A i \in DOMAIN c.recomendaciones :
          c.recomendaciones[i].tipo \in TIPOS_RECOMENDACION
    /\ c.aptitud_laboral = None \/ c.aptitud_laboral \in VALID_APTITUDES
    /\ c.confianza_extraccion[1] <= 10 * c.confianza_extraccion[2]

\* the validated object: the dict with the codes upper-cased by the validator
HistoriaObj(c) ==
    [c EXCEPT !.diagnosticos =
        [i \in DOMAIN c.diagnosticos |->
            [c.diagnosticos[i] EXCEPT !.codigo_cie10 = Upper(c.diagnosticos[i].codigo_cie10)]]]

\* ---------------------------------------------------------------- dates
\* day ordinals: date.today() and the first day of the 5-year window
Hoy == 3
FechaMinima == 2

\* DateValidator.validate_emo_date
validate_emo_date(fecha_emo) ==
    IF fecha_emo = NoFecha
    THEN <<Alerta("dato_faltante", "alta", Campo.fecha_emo, Desc.SinFechaEmo)>>
    ELSE IF fecha_emo < FechaMinima \/ fecha_emo > Hoy
         THEN <<Alerta("formato_incorrecto", "media", Campo.fecha_emo,
                       Desc.FechaFueraDeRango)>>
         ELSE <<>>

\* ------------------------------------------- validate_historia_completa
validate_historia_completa(h, hp) ==
    LET es_examen_especifico == h.tipo_documento_fuente = "examen_especifico"
        a_diag == IF h.diagnosticos # <<>> THEN validate_diagnosis_list(h.diagnosticos)
                  ELSE IF ~es_examen_especifico THEN <<AlertaSinDiagnosticos>>
                  ELSE <<>>
        a_fecha == IF ~es_examen_especifico THEN validate_emo_date(h.fecha_emo) ELSE <<>>
        a_signos == IF h.signos_vitales # 0
                    THEN validate_vital_signs(hp[h.signos_vitales])
                    ELSE <<>>
        a_aptitud == IF ~es_examen_especifico /\ h.aptitud_laboral = None
                     THEN <<Alerta("dato_faltante", "alta", Campo.aptitud_laboral,
                                   Desc.SinAptitud)>>
                     ELSE <<>>
        a_restr == IF TruthyTxt(h.restricciones_especificas) /\ h.diagnosticos = <<>>
                   THEN <<Alerta("inconsistencia_diagnostica", "media",
                                 Campo.restricciones_especificas,
                                 Desc.RestriccionesSinDx)>>
                   ELSE <<>>
    IN a_diag \o a_fecha \o a_signos \o a_aptitud \o a_restr

\* --------------------------------------------------------- alert filter
WHITELIST_ALERT_TYPES ==
    {"valor_critico", "formato_incorrecto", "inconsistencia_diagnostica",
     "fecha_invalida"}

ADMINISTRATIVE_FIELDS ==
    {<<"e","p","s">>,
     <<"a","r","l">>,
     <<"a","f","i","l","i","a","c","i","o","n">>,
     <<"e","m","p","r","e","s","a">>,
     <<"a","r","e","a">>,
     <<"c","a","r","g","o">>,
     <<"a","n","t","i","g","u","e","d","a","d">>,
     <<"e","d","a","d">>,
     <<"s","e","x","o">>,
     <<"f","e","c","h","a","_","n","a","c","i","m","i","e","n","t","o">>}

\* \w of the regex engine
IsWordTok(t) == IsAlphaChar(t) \/ IsDigitChar(t) \/ t = "_" \/ Unaccent(t) # t

\* variant: the pattern without the \b anchors
WordSearchMut(s, palabras) ==
    \E w \in palabras : \E i \in 1..(Len(s) - Len(w) + 1) :
        SubSeq(LowerText(s), i, i + Len(w) - 1) = w

\* re.search(r'\b(w1|w2|...)\b', s, re.IGNORECASE)
WordSearch(s, palabras) ==
    \E w \in palabras : \E i \in 1..(Len(s) - Len(w) + 1) :
        /\ SubSeq(LowerText(s), i, i + Len(w) - 1) = w
        /\ i = 1 \/ ~IsWordTok(s[i - 1])
        /\ i + Len(w) - 1 = Len(s) \/ ~IsWordTok(s[i + Len(w)])

ContainsAny(s, palabras) == \E w \in palabras : Contains(s, w)

is_signos_vitales_alert_in_cmo(alerta, h) ==
    /\ h.tipo_documento_fuente = "cmo"
    /\ alerta.tipo = "dato_faltante"
    /\ LET kws == {<<"s","i","g","n","o","s","_","v","i","t","a","l","e","s">>,
               <<"s","i","g","n","o","s"," ","v","i","t","a","l","e","s">>,
               <<"p","r","e","s","i","o","n">>,
               <<"f","r","e","c","u","e","n","c","i","a">>,
               <<"t","e","m","p","e","r","a","t","u","r","a">>,
               <<"s","a","t","u","r","a","c","i","o","n">>,
               <<"p","e","s","o">>,
               <<"t","a","l","l","a">>,
               <<"i","m","c">>}
       IN \/ ContainsAny(LowerText(alerta.descripcion), kws)
          \/ ContainsAny(LowerText(alerta.campo_afectado), kws)

is_administrative_alert(alerta) ==
    /\ alerta.tipo = "dato_faltante"
    /\ \/ WordSearch(alerta.descripcion, ADMINISTRATIVE_FIELDS)
       \/ WordSearch(alerta.campo_afectado, ADMINISTRATIVE_FIELDS)

\* variant: the keyword list of the diagnoses holds the unaccented word only
is_covered_in_consolidatedMut(alerta, h) ==
    /\ h.tipo_documento_fuente \in {"consolidado", "hc_completa"}
    /\ alerta.tipo = "dato_faltante"
    /\ LET d == LowerText(alerta.descripcion)
       IN \/ ContainsAny(d, {<<"t","i","p","o","_","e","m","o">>, <<"t","i","p","o"," ","d","e"," ","e","m","o">>}) /\ TruthyStr(h.tipo_emo)
          \/ ContainsAny(d, {<<"a","p","t","i","t","u","d">>, <<"a","p","t","i","t","u","d"," ","l","a","b","o","r","a","l">>}) /\ TruthyStr(h.aptitud_laboral)
          \/ ContainsAny(d, {<<"d","i","a","g","n","o","s","t","i","c","o">>}) /\ h.diagnosticos # <<>>
          \/ ContainsAny(d, {<<"f","e","c","h","a","_","e","m","o">>, <<"f","e","c","h","a"," ","d","e","l"," ","e","m","o">>}) /\ h.fecha_emo # NoFecha
          \/ ContainsAny(d, {<<"s","i","g","n","o","s"," ","v","i","t","a","l","e","s">>, <<"s","i","g","n","o","s","_","v","i","t","a","l","e","s">>}) /\ h.signos_vitales # 0

is_covered_in_consolidated(alerta, h) ==
    /\ h.tipo_documento_fuente \in {"consolidado", "hc_completa"}
    /\ alerta.tipo = "dato_faltante"
    /\ LET d == LowerText(alerta.descripcion)
       IN \/ ContainsAny(d, {<<"t","i","p","o","_","e","m","o">>, <<"t","i","p","o"," ","d","e"," ","e","m","o">>}) /\ TruthyStr(h.tipo_emo)
          \/ ContainsAny(d, {<<"a","p","t","i","t","u","d">>, <<"a","p","t","i","t","u","d"," ","l","a","b","o","r","a","l">>}) /\ TruthyStr(h.aptitud_laboral)
          \/ ContainsAny(d, {<<"d","i","a","g","n","o","s","t","i","c","o">>, <<"d","i","a","g","n","o^","s","t","i","c","o">>}) /\ h.diagnosticos # <<>>
          \/ ContainsAny(d, {<<"f","e","c","h","a","_","e","m","o">>, <<"f","e","c","h","a"," ","d","e","l"," ","e","m","o">>}) /\ h.fecha_emo # NoFecha
          \/ ContainsAny(d, {<<"s","i","g","n","o","s"," ","v","i","t","a","l","e","s">>, <<"s","i","g","n","o","s","_","v","i","t","a","l","e","s">>}) /\ h.signos_vitales # 0

is_invalid_for_exam_especifico(alerta, h) ==
    /\ h.tipo_documento_fuente = "examen_especifico"
    /\ alerta.tipo = "dato_faltante"
    /\ LET d == LowerText(alerta.descripcion)
       IN \/ ContainsAny(d, {<<"d","i","a","g","n","o^","s","t","i","c","o"," ","p","r","i","n","c","i","p","a","l">>, <<"d","i","a","g","n","o","s","t","i","c","o"," ","p","r","i","n","c","i","p","a","l">>})
          \/ ContainsAny(d, {<<"t","i","p","o","_","e","m","o">>, <<"t","i","p","o"," ","d","e"," ","e","m","o">>, <<"s","i","n"," ","t","i","p","o","_","e","m","o">>})
          \/ Contains(d, <<"a","p","t","i","t","u","d">>) /\ Contains(d, <<"l","a","b","o","r","a","l">>)
          \/ ContainsAny(d, {<<"c","o","n","c","e","p","t","o"," ","d","e"," ","a","p","t","i","t","u","d">>, <<"s","i","n"," ","a","p","t","i","t","u","d">>})
          \/ ContainsAny(d, {<<"f","e","c","h","a","_","e","m","o">>, <<"f","e","c","h","a"," ","d","e","l"," ","e","m","o">>})
          \/ ContainsAny(d, {<<"n","o"," ","s","e"," ","e","n","c","o","n","t","r","a","r","o","n"," ","d","i","a","g","n","o","s","t","i","c","o","s">>, <<"n","o"," ","s","e"," ","e","n","c","o","n","t","r","a","r","o","n"," ","d","i","a","g","n","o^","s","t","i","c","o","s">>, <<"s","i","n"," ","d","i","a","g","n","o","s","t","i","c","o","s">>, <<"s","i","n"," ","d","i","a","g","n","o^","s","t","i","c","o","s">>})

\* the decision of filter_alerts for one alert: TRUE when it is kept
AlertaSeConserva(alerta, h) ==
    IF alerta.tipo \in WHITELIST_ALERT_TYPES THEN TRUE
    ELSE ~ \/ alerta.tipo = "evaluacion_incompleta"
           \/ is_signos_vitales_alert_in_cmo(alerta, h)
           \/ is_administrative_alert(alerta)
           \/ is_covered_in_consolidated(alerta, h)
           \/ is_invalid_for_exam_especifico(alerta, h)

\* variant: an alert equal to one already kept is not appended again
RECURSIVE filter_alertsMut(_, _)
filter_alertsMut(alertas, h) ==
    IF alertas = <<>> THEN <<>>
    ELSE LET antes == filter_alertsMut(SubSeq(alertas, 1, Len(alertas) - 1), h)
             a == alertas[Len(alertas)]
         IN IF AlertaSeConserva(a, h) /\ a \notin Range(antes)
            THEN Append(antes, a) ELSE antes

filter_alerts(alertas, h) == SelectSeq(alertas, LAMBDA a : AlertaSeConserva(a, h))


\* ------------------------------------------------- regular expressions
\* A pattern is a tuple tagged by its first element: "str" a literal run,
\* "set" one token of a set, "cat" a class (\d, \s, \w), "any" the dot,
\* "seq", "alt", "rep" (min, max with -1 for no limit), "wb" the \b
\* boundary and "nla" the (?!...) lookahead.  Ends(r, s, i) is the set of
\* positions where a match of r that starts at position i of s can end.
\* The texts of the model hold no line breaks, so \s is the blank and the
\* dot is any token.
RECURSIVE Ends(_, _, _), EndsSeq(_, _, _), EndsRep(_, _, _, _, _)
Ends(r, s, i) ==
    CASE r[1] = "str" ->
            IF i + Len(r[2]) - 1 <= Len(s) /\ SubSeq(s, i, i + Len(r[2]) - 1) = r[2]
            THEN {i + Len(r[2])} ELSE {}
      [] r[1] = "set" -> IF i <= Len(s) /\ s[i] \in r[2] THEN {i + 1} ELSE {}
      [] r[1] = "cat" ->
            IF i <= Len(s) /\ (CASE r[2] = "d" -> IsDigitChar(s[i])
                                 [] r[2] = "s" -> s[i] = " "
                                 [] r[2] = "w" -> IsWordTok(s[i]))
            THEN {i + 1} ELSE {}
      [] r[1] = "any" -> IF i <= Len(s) THEN {i + 1} ELSE {}
      [] r[1] = "seq" -> EndsSeq(r[2], s, {i})
      [] r[1] = "alt" -> UNION {Ends(r[2][k], s, i) : k \in DOMAIN r[2]}
      [] r[1] = "rep" -> EndsRep(r[4], r[2], r[3], s, {i})
      [] r[1] = "wb" ->
            IF (i > 1 /\ IsWordTok(s[i - 1])) # (i <= Len(s) /\ IsWordTok(s[i]))
            THEN {i} ELSE {}
      [] r[1] = "nla" -> IF Ends(r[2], s, i) = {} THEN {i} ELSE {}

EndsSeq(rs, s, from) ==
    IF rs = <<>> \/ from = {} THEN from
    ELSE EndsSeq(Tail(rs), s, UNION {Ends(Head(rs), s, i) : i \in from})

EndsRep(r, lo, hi, s, from) ==
    IF from = {} THEN {}
    ELSE LET here == IF lo <= 0 THEN from ELSE {}
             more == IF hi = 0 THEN {}
                     ELSE UNION {Ends(r, s, i) : i \in from} \ here
         IN here \cup EndsRep(r, IF lo > 0 THEN lo - 1 ELSE 0,
                              IF hi > 0 THEN hi - 1 ELSE hi, s, more)

\* any(re.search(p, s) for p in patterns)
SearchAny(patterns, s) ==
    \E k \in DOMAIN patterns : \E i \in 1..(Len(s) + 1) : Ends(patterns[k], s, i) # {}

\* ----------------------------------------------- recommendation filter
\* names of exams, looked for as substrings of the normalized description
EXAM_NAME_TERMS ==
    {<<"e","s","p","i","r","o","m","e","t","r","i","a">>,
     <<"a","u","d","i","o","m","e","t","r","i","a">>,
     <<"o","p","t","o","m","e","t","r","i","a">>,
     <<"v","i","s","i","o","m","e","t","r","i","a">>,
     <<"l","a","b","o","r","a","t","o","r","i","o">>,
     <<"l","a","b","o","r","a","t","o","r","i","o","s">>,
     <<"r","a","d","i","o","g","r","a","f","i","a">>,
     <<"e","c","o","g","r","a","f","i","a">>,
     <<"e","l","e","c","t","r","o","c","a","r","d","i","o","g","r","a","m","a">>,
     <<"e","c","g">>,
     <<"e","k","g">>,
     <<"r","a","y","o","s"," ","x">>,
     <<"r","x">>,
     <<"t","o","m","o","g","r","a","f","i","a">>,
     <<"r","e","s","o","n","a","n","c","i","a">>,
     <<"p","a","r","c","i","a","l"," ","d","e"," ","o","r","i","n","a">>,
     <<"h","e","m","o","g","r","a","m","a">>,
     <<"g","l","i","c","e","m","i","a">>,
     <<"c","o","l","e","s","t","e","r","o","l">>,
     <<"t","r","i","g","l","i","c","e","r","i","d","o","s">>,
     <<"c","u","a","d","r","o"," ","h","e","m","a","t","i","c","o">>,
     <<"c","o","p","r","o","l","o","g","i","c","o">>,
     <<"v","d","r","l">>,
     <<"v","i","h">>,
     <<"h","e","p","a","t","i","t","i","s">>,
     <<"c","o","n","t","r","o","l"," ","p","e","r","i","o","d","i","c","o">>,
     <<"c","o","n","t","r","o","l"," ","o","c","u","p","a","c","i","o","n","a","l">>,
     <<"c","o","n","t","r","o","l"," ","a","n","u","a","l">>}

\* generic keywords, looked for as substrings
GENERIC_KEYWORDS ==
    {<<"c","a","p","a","c","i","t","a","c","i","o","n">>,
     <<"e","d","u","c","a","c","i","o","n"," ","e","n">>,
     <<"h","a","b","i","t","o","s"," ","s","a","l","u","d","a","b","l","e","s">>,
     <<"e","s","t","i","l","o"," ","d","e"," ","v","i","d","a"," ","s","a","l","u","d","a","b","l","e">>,
     <<"p","a","u","s","a","s"," ","a","c","t","i","v","a","s">>,
     <<"a","d","h","e","r","i","r"," ","l","i","n","e","a","m","i","e","n","t","o","s">>,
     <<"c","o","n","t","r","o","l"," ","s","e","g","u","n"," ","p","v","e">>,
     <<"l","i","n","e","a","m","i","e","n","t","o","s"," ","d","e","l"," ","m","i","n","i","s","t","e","r","i","o">>}

\* generic phrases
GENERIC_PATTERNS ==
    <<
      \* \buso\s+(adecuado\s+)?de\s+epp\b
      <<"seq",<<<<"wb">>, <<"str",<<"u","s","o">>>>, <<"rep",1,-1,<<"cat","s">>>>, <<"rep",0,1,<<"seq",<<<<"str",<<"a","d","e","c","u","a","d","o">>>>, <<"rep",1,-1,<<"cat","s">>>>>>>>>>, <<"str",<<"d","e">>>>, <<"rep",1,-1,<<"cat","s">>>>, <<"str",<<"e","p","p">>>>, <<"wb">>>>>>,
      \* \bepp\s+(auditivo|visual|respiratorio)(?!.*por|debido|exposicion)
      <<"seq",<<<<"wb">>, <<"str",<<"e","p","p">>>>, <<"rep",1,-1,<<"cat","s">>>>, <<"alt",<<<<"str",<<"a","u","d","i","t","i","v","o">>>>, <<"str",<<"v","i","s","u","a","l">>>>, <<"str",<<"r","e","s","p","i","r","a","t","o","r","i","o">>>>>>>>, <<"nla",<<"alt",<<<<"seq",<<<<"rep",0,-1,<<"any">>>>, <<"str",<<"p","o","r">>>>>>>>, <<"str",<<"d","e","b","i","d","o">>>>, <<"str",<<"e","x","p","o","s","i","c","i","o","n">>>>>>>>>>>>>>,
      \* uso\s+(adecuado|correcto|permanente|obligatorio)\s+de\s+(epp|elementos)
      <<"seq",<<<<"str",<<"u","s","o">>>>, <<"rep",1,-1,<<"cat","s">>>>, <<"alt",<<<<"str",<<"a","d","e","c","u","a","d","o">>>>, <<"str",<<"c","o","r","r","e","c","t","o">>>>, <<"str",<<"p","e","r","m","a","n","e","n","t","e">>>>, <<"str",<<"o","b","l","i","g","a","t","o","r","i","o">>>>>>>>, <<"rep",1,-1,<<"cat","s">>>>, <<"str",<<"d","e">>>>, <<"rep",1,-1,<<"cat","s">>>>, <<"seq",<<<<"str",<<"e">>>>, <<"alt",<<<<"str",<<"p","p">>>>, <<"str",<<"l","e","m","e","n","t","o","s">>>>>>>>>>>>>>>>,
      \* uso\s+de\s+proteccion\s+personal
      <<"seq",<<<<"str",<<"u","s","o">>>>, <<"rep",1,-1,<<"cat","s">>>>, <<"str",<<"d","e">>>>, <<"rep",1,-1,<<"cat","s">>>>, <<"str",<<"p","r","o","t","e","c","c","i","o","n">>>>, <<"rep",1,-1,<<"cat","s">>>>, <<"str",<<"p","e","r","s","o","n","a","l">>>>>>>>,
      \* elementos\s+de\s+proteccion\s+personal
      <<"seq",<<<<"str",<<"e","l","e","m","e","n","t","o","s">>>>, <<"rep",1,-1,<<"cat","s">>>>, <<"str",<<"d","e">>>>, <<"rep",1,-1,<<"cat","s">>>>, <<"str",<<"p","r","o","t","e","c","c","i","o","n">>>>, <<"rep",1,-1,<<"cat","s">>>>, <<"str",<<"p","e","r","s","o","n","a","l">>>>>>>>,
      \* \beducacion\s+en\b
      <<"seq",<<<<"wb">>, <<"str",<<"e","d","u","c","a","c","i","o","n">>>>, <<"rep",1,-1,<<"cat","s">>>>, <<"str",<<"e","n">>>>, <<"wb">>>>>>,
      \* \bcapacitacion\s+en\b
      <<"seq",<<<<"wb">>, <<"str",<<"c","a","p","a","c","i","t","a","c","i","o","n">>>>, <<"rep",1,-1,<<"cat","s">>>>, <<"str",<<"e","n">>>>, <<"wb">>>>>>,
      \* \bcapacitacion\s+(grupal|individual|periodica)
      <<"seq",<<<<"wb">>, <<"str",<<"c","a","p","a","c","i","t","a","c","i","o","n">>>>, <<"rep",1,-1,<<"cat","s">>>>, <<"alt",<<<<"str",<<"g","r","u","p","a","l">>>>, <<"str",<<"i","n","d","i","v","i","d","u","a","l">>>>, <<"str",<<"p","e","r","i","o","d","i","c","a">>>>>>>>>>>>,
      \* \bhabitos\s+(saludables|y\s+estilos)
      <<"seq",<<<<"wb">>, <<"str",<<"h","a","b","i","t","o","s">>>>, <<"rep",1,-1,<<"cat","s">>>>, <<"alt",<<<<"str",<<"s","a","l","u","d","a","b","l","e","s">>>>, <<"seq",<<<<"str",<<"y">>>>, <<"rep",1,-1,<<"cat","s">>>>, <<"str",<<"e","s","t","i","l","o","s">>>>>>>>>>>>>>>>,
      \* continuar\s+(o\s+)?(adoptar\s+)?habitos
      <<"seq",<<<<"str",<<"c","o","n","t","i","n","u","a","r">>>>, <<"rep",1,-1,<<"cat","s">>>>, <<"rep",0,1,<<"seq",<<<<"str",<<"o">>>>, <<"rep",1,-1,<<"cat","s">>>>>>>>>>, <<"rep",0,1,<<"seq",<<<<"str",<<"a","d","o","p","t","a","r">>>>, <<"rep",1,-1,<<"cat","s">>>>>>>>>>, <<"str",<<"h","a","b","i","t","o","s">>>>>>>>,
      \* estilo\s+de\s+vida\s+saludable
      <<"seq",<<<<"str",<<"e","s","t","i","l","o">>>>, <<"rep",1,-1,<<"cat","s">>>>, <<"str",<<"d","e">>>>, <<"rep",1,-1,<<"cat","s">>>>, <<"str",<<"v","i","d","a">>>>, <<"rep",1,-1,<<"cat","s">>>>, <<"str",<<"s","a","l","u","d","a","b","l","e">>>>>>>>,
      \* mantener\s+habitos\s+saludables
      <<"seq",<<<<"str",<<"m","a","n","t","e","n","e","r">>>>, <<"rep",1,-1,<<"cat","s">>>>, <<"str",<<"h","a","b","i","t","o","s">>>>, <<"rep",1,-1,<<"cat","s">>>>, <<"str",<<"s","a","l","u","d","a","b","l","e","s">>>>>>>>,
      \* adoptar\s+habitos\s+saludables
      <<"seq",<<<<"str",<<"a","d","o","p","t","a","r">>>>, <<"rep",1,-1,<<"cat","s">>>>, <<"str",<<"h","a","b","i","t","o","s">>>>, <<"rep",1,-1,<<"cat","s">>>>, <<"str",<<"s","a","l","u","d","a","b","l","e","s">>>>>>>>,
      \* promover\s+habitos
      <<"seq",<<<<"str",<<"p","r","o","m","o","v","e","r">>>>, <<"rep",1,-1,<<"cat","s">>>>, <<"str",<<"h","a","b","i","t","o","s">>>>>>>>,
      \* adherir\s+(a\s+)?(lineamientos|guias?|protocolos?)
      <<"seq",<<<<"str",<<"a","d","h","e","r","i","r">>>>, <<"rep",1,-1,<<"cat","s">>>>, <<"rep",0,1,<<"seq",<<<<"str",<<"a">>>>, <<"rep",1,-1,<<"cat","s">>>>>>>>>>, <<"alt",<<<<"str",<<"l","i","n","e","a","m","i","e","n","t","o","s">>>>, <<"seq",<<<<"str",<<"g","u","i","a">>>>, <<"rep",0,1,<<"str",<<"s">>>>>>>>>>, <<"seq",<<<<"str",<<"p","r","o","t","o","c","o","l","o">>>>, <<"rep",0,1,<<"str",<<"s">>>>>>>>>>>>>>>>>>,
      \* seguir\s+(lineamientos|guias?|protocolos?)
      <<"seq",<<<<"str",<<"s","e","g","u","i","r">>>>, <<"rep",1,-1,<<"cat","s">>>>, <<"alt",<<<<"str",<<"l","i","n","e","a","m","i","e","n","t","o","s">>>>, <<"seq",<<<<"str",<<"g","u","i","a">>>>, <<"rep",0,1,<<"str",<<"s">>>>>>>>>>, <<"seq",<<<<"str",<<"p","r","o","t","o","c","o","l","o">>>>, <<"rep",0,1,<<"str",<<"s">>>>>>>>>>>>>>>>>>,
      \* control\s+segun\s+(pve|programa)
      <<"seq",<<<<"str",<<"c","o","n","t","r","o","l">>>>, <<"rep",1,-1,<<"cat","s">>>>, <<"str",<<"s","e","g","u","n">>>>, <<"rep",1,-1,<<"cat","s">>>>, <<"seq",<<<<"str",<<"p">>>>, <<"alt",<<<<"str",<<"v","e">>>>, <<"str",<<"r","o","g","r","a","m","a">>>>>>>>>>>>>>>>,
      \* lineamientos\s+(del\s+ministerio|nacionales|internacionales)
      <<"seq",<<<<"str",<<"l","i","n","e","a","m","i","e","n","t","o","s">>>>, <<"rep",1,-1,<<"cat","s">>>>, <<"alt",<<<<"seq",<<<<"str",<<"d","e","l">>>>, <<"rep",1,-1,<<"cat","s">>>>, <<"str",<<"m","i","n","i","s","t","e","r","i","o">>>>>>>>, <<"str",<<"n","a","c","i","o","n","a","l","e","s">>>>, <<"str",<<"i","n","t","e","r","n","a","c","i","o","n","a","l","e","s">>>>>>>>>>>>,
      \* cumplir\s+con\s+lineamientos
      <<"seq",<<<<"str",<<"c","u","m","p","l","i","r">>>>, <<"rep",1,-1,<<"cat","s">>>>, <<"str",<<"c","o","n">>>>, <<"rep",1,-1,<<"cat","s">>>>, <<"str",<<"l","i","n","e","a","m","i","e","n","t","o","s">>>>>>>>,
      \* \breposo\s+auditivo\b(?!.*\d+\s*(min|hora|hr))
      <<"seq",<<<<"wb">>, <<"str",<<"r","e","p","o","s","o">>>>, <<"rep",1,-1,<<"cat","s">>>>, <<"str",<<"a","u","d","i","t","i","v","o">>>>, <<"wb">>, <<"nla",<<"seq",<<<<"rep",0,-1,<<"any">>>>, <<"rep",1,-1,<<"cat","d">>>>, <<"rep",0,-1,<<"cat","s">>>>, <<"alt",<<<<"str",<<"m","i","n">>>>, <<"str",<<"h","o","r","a">>>>, <<"str",<<"h","r">>>>>>>>>>>>>>>>>>,
      \* \bejercicio\s+fisico\b(?!.*\d+\s*(min|veces|sesiones))
      <<"seq",<<<<"wb">>, <<"str",<<"e","j","e","r","c","i","c","i","o">>>>, <<"rep",1,-1,<<"cat","s">>>>, <<"str",<<"f","i","s","i","c","o">>>>, <<"wb">>, <<"nla",<<"seq",<<<<"rep",0,-1,<<"any">>>>, <<"rep",1,-1,<<"cat","d">>>>, <<"rep",0,-1,<<"cat","s">>>>, <<"alt",<<<<"str",<<"m","i","n">>>>, <<"str",<<"v","e","c","e","s">>>>, <<"str",<<"s","e","s","i","o","n","e","s">>>>>>>>>>>>>>>>>>,
      \* \bfotoproteccion\b(?!.*fps|factor|exposicion)
      <<"seq",<<<<"wb">>, <<"str",<<"f","o","t","o","p","r","o","t","e","c","c","i","o","n">>>>, <<"wb">>, <<"nla",<<"alt",<<<<"seq",<<<<"rep",0,-1,<<"any">>>>, <<"str",<<"f","p","s">>>>>>>>, <<"str",<<"f","a","c","t","o","r">>>>, <<"str",<<"e","x","p","o","s","i","c","i","o","n">>>>>>>>>>>>>>,
      \* \buso\s+de\s+filtro\s+solar\b(?!.*fps|exposicion)
      <<"seq",<<<<"wb">>, <<"str",<<"u","s","o">>>>, <<"rep",1,-1,<<"cat","s">>>>, <<"str",<<"d","e">>>>, <<"rep",1,-1,<<"cat","s">>>>, <<"str",<<"f","i","l","t","r","o">>>>, <<"rep",1,-1,<<"cat","s">>>>, <<"str",<<"s","o","l","a","r">>>>, <<"wb">>, <<"nla",<<"alt",<<<<"seq",<<<<"rep",0,-1,<<"any">>>>, <<"str",<<"f","p","s">>>>>>>>, <<"str",<<"e","x","p","o","s","i","c","i","o","n">>>>>>>>>>>>>>,
      \* \buso\s+de\s+bloqueador\b(?!.*fps)
      <<"seq",<<<<"wb">>, <<"str",<<"u","s","o">>>>, <<"rep",1,-1,<<"cat","s">>>>, <<"str",<<"d","e">>>>, <<"rep",1,-1,<<"cat","s">>>>, <<"str",<<"b","l","o","q","u","e","a","d","o","r">>>>, <<"wb">>, <<"nla",<<"seq",<<<<"rep",0,-1,<<"any">>>>, <<"str",<<"f","p","s">>>>>>>>>>>>>>,
      \* 150\s+minutos.*ejercicio
      <<"seq",<<<<"str",<<"1","5","0">>>>, <<"rep",1,-1,<<"cat","s">>>>, <<"str",<<"m","i","n","u","t","o","s">>>>, <<"rep",0,-1,<<"any">>>>, <<"str",<<"e","j","e","r","c","i","c","i","o">>>>>>>>,
      \* actividad\s+fisica\s+regular(?!.*\d+)
      <<"seq",<<<<"str",<<"a","c","t","i","v","i","d","a","d">>>>, <<"rep",1,-1,<<"cat","s">>>>, <<"str",<<"f","i","s","i","c","a">>>>, <<"rep",1,-1,<<"cat","s">>>>, <<"str",<<"r","e","g","u","l","a","r">>>>, <<"nla",<<"seq",<<<<"rep",0,-1,<<"any">>>>, <<"rep",1,-1,<<"cat","d">>>>>>>>>>>>>>,
      \* realizar\s+ejercicio(?!.*\d+)
      <<"seq",<<<<"str",<<"r","e","a","l","i","z","a","r">>>>, <<"rep",1,-1,<<"cat","s">>>>, <<"str",<<"e","j","e","r","c","i","c","i","o">>>>, <<"nla",<<"seq",<<<<"rep",0,-1,<<"any">>>>, <<"rep",1,-1,<<"cat","d">>>>>>>>>>>>>>,
      \* pausas\s+activas(?!.*cada|\d+)
      <<"seq",<<<<"str",<<"p","a","u","s","a","s">>>>, <<"rep",1,-1,<<"cat","s">>>>, <<"str",<<"a","c","t","i","v","a","s">>>>, <<"nla",<<"alt",<<<<"seq",<<<<"rep",0,-1,<<"any">>>>, <<"str",<<"c","a","d","a">>>>>>>>, <<"rep",1,-1,<<"cat","d">>>>>>>>>>>>>>,
      \* pausas\s+laborales(?!.*cada|\d+)
      <<"seq",<<<<"str",<<"p","a","u","s","a","s">>>>, <<"rep",1,-1,<<"cat","s">>>>, <<"str",<<"l","a","b","o","r","a","l","e","s">>>>, <<"nla",<<"alt",<<<<"seq",<<<<"rep",0,-1,<<"any">>>>, <<"str",<<"c","a","d","a">>>>>>>>, <<"rep",1,-1,<<"cat","d">>>>>>>>>>>>>>,
      \* realizar\s+pausas(?!.*cada|\d+)
      <<"seq",<<<<"str",<<"r","e","a","l","i","z","a","r">>>>, <<"rep",1,-1,<<"cat","s">>>>, <<"str",<<"p","a","u","s","a","s">>>>, <<"nla",<<"alt",<<<<"seq",<<<<"rep",0,-1,<<"any">>>>, <<"str",<<"c","a","d","a">>>>>>>>, <<"rep",1,-1,<<"cat","d">>>>>>>>>>>>>>,
      \* buena\s+postura(?!.*por|debido)
      <<"seq",<<<<"str",<<"b","u","e","n","a">>>>, <<"rep",1,-1,<<"cat","s">>>>, <<"str",<<"p","o","s","t","u","r","a">>>>, <<"nla",<<"alt",<<<<"seq",<<<<"rep",0,-1,<<"any">>>>, <<"str",<<"p","o","r">>>>>>>>, <<"str",<<"d","e","b","i","d","o">>>>>>>>>>>>>>,
      \* higiene\s+postural(?!.*por|debido)
      <<"seq",<<<<"str",<<"h","i","g","i","e","n","e">>>>, <<"rep",1,-1,<<"cat","s">>>>, <<"str",<<"p","o","s","t","u","r","a","l">>>>, <<"nla",<<"alt",<<<<"seq",<<<<"rep",0,-1,<<"any">>>>, <<"str",<<"p","o","r">>>>>>>>, <<"str",<<"d","e","b","i","d","o">>>>>>>>>>>>>>,
      \* ergonomia\s+(del\s+)?(puesto\s+de\s+trabajo|laboral)(?!.*por|debido)
      <<"seq",<<<<"str",<<"e","r","g","o","n","o","m","i","a">>>>, <<"rep",1,-1,<<"cat","s">>>>, <<"rep",0,1,<<"seq",<<<<"str",<<"d","e","l">>>>, <<"rep",1,-1,<<"cat","s">>>>>>>>>>, <<"alt",<<<<"seq",<<<<"str",<<"p","u","e","s","t","o">>>>, <<"rep",1,-1,<<"cat","s">>>>, <<"str",<<"d","e">>>>, <<"rep",1,-1,<<"cat","s">>>>, <<"str",<<"t","r","a","b","a","j","o">>>>>>>>, <<"str",<<"l","a","b","o","r","a","l">>>>>>>>, <<"nla",<<"alt",<<<<"seq",<<<<"rep",0,-1,<<"any">>>>, <<"str",<<"p","o","r">>>>>>>>, <<"str",<<"d","e","b","i","d","o">>>>>>>>>>>>>>,
      \* correccion\s+postural(?!.*por|debido)
      <<"seq",<<<<"str",<<"c","o","r","r","e","c","c","i","o","n">>>>, <<"rep",1,-1,<<"cat","s">>>>, <<"str",<<"p","o","s","t","u","r","a","l">>>>, <<"nla",<<"alt",<<<<"seq",<<<<"rep",0,-1,<<"any">>>>, <<"str",<<"p","o","r">>>>>>>>, <<"str",<<"d","e","b","i","d","o">>>>>>>>>>>>>>,
      \* \bhidratacion\b(?!.*\d+\s*(litros|ml))
      <<"seq",<<<<"wb">>, <<"str",<<"h","i","d","r","a","t","a","c","i","o","n">>>>, <<"wb">>, <<"nla",<<"seq",<<<<"rep",0,-1,<<"any">>>>, <<"rep",1,-1,<<"cat","d">>>>, <<"rep",0,-1,<<"cat","s">>>>, <<"alt",<<<<"str",<<"l","i","t","r","o","s">>>>, <<"str",<<"m","l">>>>>>>>>>>>>>>>>>,
      \* consumo\s+de\s+agua(?!.*\d+)
      <<"seq",<<<<"str",<<"c","o","n","s","u","m","o">>>>, <<"rep",1,-1,<<"cat","s">>>>, <<"str",<<"d","e">>>>, <<"rep",1,-1,<<"cat","s">>>>, <<"str",<<"a","g","u","a">>>>, <<"nla",<<"seq",<<<<"rep",0,-1,<<"any">>>>, <<"rep",1,-1,<<"cat","d">>>>>>>>>>>>>>
    >>

\* the indicators of clinical context
clinical_indicators ==
    <<
      \* \d+\s*(mg|db|kg|mmhg|cm|mm|ml|litros|degc|grados|fps|hz|khz)
      <<"seq",<<<<"rep",1,-1,<<"cat","d">>>>, <<"rep",0,-1,<<"cat","s">>>>, <<"alt",<<<<"str",<<"m","g">>>>, <<"str",<<"d","b">>>>, <<"str",<<"k","g">>>>, <<"str",<<"m","m","h","g">>>>, <<"str",<<"c","m">>>>, <<"str",<<"m","m">>>>, <<"str",<<"m","l">>>>, <<"str",<<"l","i","t","r","o","s">>>>, <<"str",<<"deg","c">>>>, <<"str",<<"g","r","a","d","o","s">>>>, <<"str",<<"f","p","s">>>>, <<"str",<<"h","z">>>>, <<"str",<<"k","h","z">>>>>>>>>>>>,
      \* (>|<|=|mayor\s+a|menor\s+a|superior\s+a|inferior\s+a)\s*\d+
      <<"seq",<<<<"alt",<<<<"str",<<">">>>>, <<"str",<<"<">>>>, <<"str",<<"=">>>>, <<"seq",<<<<"str",<<"m","a","y","o","r">>>>, <<"rep",1,-1,<<"cat","s">>>>, <<"str",<<"a">>>>>>>>, <<"seq",<<<<"str",<<"m","e","n","o","r">>>>, <<"rep",1,-1,<<"cat","s">>>>, <<"str",<<"a">>>>>>>>, <<"seq",<<<<"str",<<"s","u","p","e","r","i","o","r">>>>, <<"rep",1,-1,<<"cat","s">>>>, <<"str",<<"a">>>>>>>>, <<"seq",<<<<"str",<<"i","n","f","e","r","i","o","r">>>>, <<"rep",1,-1,<<"cat","s">>>>, <<"str",<<"a">>>>>>>>>>>>, <<"rep",0,-1,<<"cat","s">>>>, <<"rep",1,-1,<<"cat","d">>>>>>>>,
      \* \bimc\s*(>|<|=|mayor|menor)
      <<"seq",<<<<"wb">>, <<"str",<<"i","m","c">>>>, <<"rep",0,-1,<<"cat","s">>>>, <<"alt",<<<<"str",<<">">>>>, <<"str",<<"<">>>>, <<"str",<<"=">>>>, <<"str",<<"m","a","y","o","r">>>>, <<"str",<<"m","e","n","o","r">>>>>>>>>>>>,
      \* nivel\s+de\s+\d+
      <<"seq",<<<<"str",<<"n","i","v","e","l">>>>, <<"rep",1,-1,<<"cat","s">>>>, <<"str",<<"d","e">>>>, <<"rep",1,-1,<<"cat","s">>>>, <<"rep",1,-1,<<"cat","d">>>>>>>>,
      \* \b[A-Z]\d{2}\.\d\b
      <<"seq",<<<<"wb">>, <<"set",{"A","B","C","D","E","F","G","H","I","J","K","L","M","N","O","P","Q","R","S","T","U","V","W","X","Y","Z"}>>, <<"rep",2,2,<<"cat","d">>>>, <<"str",<<".">>>>, <<"cat","d">>, <<"wb">>>>>>,
      \* por\s+(diagnostico\s+de|hallazgo\s+de|antecedente\s+de)\s+\w+
      <<"seq",<<<<"str",<<"p","o","r">>>>, <<"rep",1,-1,<<"cat","s">>>>, <<"alt",<<<<"seq",<<<<"str",<<"d","i","a","g","n","o","s","t","i","c","o">>>>, <<"rep",1,-1,<<"cat","s">>>>, <<"str",<<"d","e">>>>>>>>, <<"seq",<<<<"str",<<"h","a","l","l","a","z","g","o">>>>, <<"rep",1,-1,<<"cat","s">>>>, <<"str",<<"d","e">>>>>>>>, <<"seq",<<<<"str",<<"a","n","t","e","c","e","d","e","n","t","e">>>>, <<"rep",1,-1,<<"cat","s">>>>, <<"str",<<"d","e">>>>>>>>>>>>, <<"rep",1,-1,<<"cat","s">>>>, <<"rep",1,-1,<<"cat","w">>>>>>>>,
      \* por\s+exposicion\s+a\s+\d+
      <<"seq",<<<<"str",<<"p","o","r">>>>, <<"rep",1,-1,<<"cat","s">>>>, <<"str",<<"e","x","p","o","s","i","c","i","o","n">>>>, <<"rep",1,-1,<<"cat","s">>>>, <<"str",<<"a">>>>, <<"rep",1,-1,<<"cat","s">>>>, <<"rep",1,-1,<<"cat","d">>>>>>>>,
      \* por\s+riesgo\s+de\s+\w+
      <<"seq",<<<<"str",<<"p","o","r">>>>, <<"rep",1,-1,<<"cat","s">>>>, <<"str",<<"r","i","e","s","g","o">>>>, <<"rep",1,-1,<<"cat","s">>>>, <<"str",<<"d","e">>>>, <<"rep",1,-1,<<"cat","s">>>>, <<"rep",1,-1,<<"cat","w">>>>>>>>,
      \* debido\s+a\s+(diagnostico|hallazgo|exposicion)
      <<"seq",<<<<"str",<<"d","e","b","i","d","o">>>>, <<"rep",1,-1,<<"cat","s">>>>, <<"str",<<"a">>>>, <<"rep",1,-1,<<"cat","s">>>>, <<"alt",<<<<"str",<<"d","i","a","g","n","o","s","t","i","c","o">>>>, <<"str",<<"h","a","l","l","a","z","g","o">>>>, <<"str",<<"e","x","p","o","s","i","c","i","o","n">>>>>>>>>>>>,
      \* relacionado\s+con\s+(diagnostico|hallazgo|patologia)
      <<"seq",<<<<"str",<<"r","e","l","a","c","i","o","n","a","d","o">>>>, <<"rep",1,-1,<<"cat","s">>>>, <<"str",<<"c","o","n">>>>, <<"rep",1,-1,<<"cat","s">>>>, <<"alt",<<<<"str",<<"d","i","a","g","n","o","s","t","i","c","o">>>>, <<"str",<<"h","a","l","l","a","z","g","o">>>>, <<"str",<<"p","a","t","o","l","o","g","i","a">>>>>>>>>>>>,
      \* cada\s+\d+\s*(meses|semanas|dias|horas)\s+(por|debido|para)
      <<"seq",<<<<"str",<<"c","a","d","a">>>>, <<"rep",1,-1,<<"cat","s">>>>, <<"rep",1,-1,<<"cat","d">>>>, <<"rep",0,-1,<<"cat","s">>>>, <<"alt",<<<<"str",<<"m","e","s","e","s">>>>, <<"str",<<"s","e","m","a","n","a","s">>>>, <<"str",<<"d","i","a","s">>>>, <<"str",<<"h","o","r","a","s">>>>>>>>, <<"rep",1,-1,<<"cat","s">>>>, <<"alt",<<<<"str",<<"p","o","r">>>>, <<"str",<<"d","e","b","i","d","o">>>>, <<"str",<<"p","a","r","a">>>>>>>>>>>>,
      \* \d+\s*(veces|sesiones)\s+por\s+(semana|mes)\s+(por|debido|para)
      <<"seq",<<<<"rep",1,-1,<<"cat","d">>>>, <<"rep",0,-1,<<"cat","s">>>>, <<"alt",<<<<"str",<<"v","e","c","e","s">>>>, <<"str",<<"s","e","s","i","o","n","e","s">>>>>>>>, <<"rep",1,-1,<<"cat","s">>>>, <<"str",<<"p","o","r">>>>, <<"rep",1,-1,<<"cat","s">>>>, <<"alt",<<<<"str",<<"s","e","m","a","n","a">>>>, <<"str",<<"m","e","s">>>>>>>>, <<"rep",1,-1,<<"cat","s">>>>, <<"alt",<<<<"str",<<"p","o","r">>>>, <<"str",<<"d","e","b","i","d","o">>>>, <<"str",<<"p","a","r","a">>>>>>>>>>>>,
      \* si\s+\w+\s+(>|<|=)\s*\d+
      <<"seq",<<<<"str",<<"s","i">>>>, <<"rep",1,-1,<<"cat","s">>>>, <<"rep",1,-1,<<"cat","w">>>>, <<"rep",1,-1,<<"cat","s">>>>, <<"set",{">","<","="}>>, <<"rep",0,-1,<<"cat","s">>>>, <<"rep",1,-1,<<"cat","d">>>>>>>>,
      \* en\s+caso\s+de\s+\w+\s+(>|<|=)\s*\d+
      <<"seq",<<<<"str",<<"e","n">>>>, <<"rep",1,-1,<<"cat","s">>>>, <<"str",<<"c","a","s","o">>>>, <<"rep",1,-1,<<"cat","s">>>>, <<"str",<<"d","e">>>>, <<"rep",1,-1,<<"cat","s">>>>, <<"rep",1,-1,<<"cat","w">>>>, <<"rep",1,-1,<<"cat","s">>>>, <<"set",{">","<","="}>>, <<"rep",0,-1,<<"cat","s">>>>, <<"rep",1,-1,<<"cat","d">>>>>>>>
    >>

\* len(descripcion.split())
RECURSIVE WordCount(_)
WordCount(s) ==
    IF s = <<>> THEN 0
    ELSE IF s[1] # " " /\ (Len(s) = 1 \/ s[2] = " ") THEN 1 + WordCount(Tail(s))
    ELSE WordCount(Tail(s))

\* the indicators are looked for in descripcion.lower(): accents stay
has_clinical_context(descripcion) == SearchAny(clinical_indicators, LowerText(descripcion))

\* the three removal rules, for a description without clinical context
EsGenerica(descripcion) ==
    LET desc_normalized == normalize_text(descripcion)
        is_exam_name == WordCount(descripcion) <= 3
                        /\ ContainsAny(desc_normalized, EXAM_NAME_TERMS)
        is_generic_keyword == ContainsAny(desc_normalized, GENERIC_KEYWORDS)
        is_generic_pattern == SearchAny(GENERIC_PATTERNS, desc_normalized)
    IN is_exam_name \/ is_generic_keyword \/ is_generic_pattern

\* historia_dict is accepted and never read
filter_recommendations(recomendaciones, historia_dict) ==
    SelectSeq(recomendaciones,
              LAMBDA rec : /\ rec.descripcion # <<>>
                           /\ \/ has_clinical_context(rec.descripcion)
                              \/ ~EsGenerica(rec.descripcion))


\* claude_processor.deduplicate_recommendations: the first entry of each
\* normalized description stays
RECURSIVE deduplicate_recommendations(_)
deduplicate_recommendations(recomendaciones) ==
    IF recomendaciones = <<>> THEN <<>>
    ELSE LET rec == recomendaciones[Len(recomendaciones)]
             antes == SubSeq(recomendaciones, 1, Len(recomendaciones) - 1)
             seen == \E i \in DOMAIN antes :
                        /\ antes[i].descripcion # <<>>
                        /\ normalize_text(antes[i].descripcion) = normalize_text(rec.descripcion)
         IN IF rec.descripcion = <<>> \/ seen
            THEN deduplicate_recommendations(antes)
            ELSE Append(deduplicate_recommendations(antes), rec)

\* ----------------------------------------------------- source records
\* the signos_vitales dict objects that exist when the call starts; a
\* record holds the address of its block (0 is None)
Bloques ==
    << [presion_arterial |-> <<120, 80>>, frecuencia_cardiaca |-> 72,
        frecuencia_respiratoria |-> 16, temperatura |-> 365,
        saturacion_oxigeno |-> 98, peso_kg |-> 70, talla_cm |-> 170, imc |-> 242],
       [presion_arterial |-> <<185, 95>>, frecuencia_cardiaca |-> 999,
        frecuencia_respiratoria |-> NoneNum, temperatura |-> 365,
        saturacion_oxigeno |-> 85, peso_kg |-> 70, talla_cm |-> 17, imc |-> NoneNum] >>

HistoriaVacia ==
    [tipo_documento_fuente |-> "hc_completa", tipo_emo |-> None, fecha_emo |-> NoFecha,
     signos_vitales |-> 0, aptitud_laboral |-> None,
     restricciones_especificas |-> NoneTxt, genera_reincorporacion |-> FALSE,
     causa_reincorporacion |-> NoneTxt, diagnosticos |-> <<>>, antecedentes |-> <<>>,
     examenes |-> <<>>, recomendaciones |-> <<>>, alertas_validacion |-> <<>>,
     confianza_extraccion |-> <<0, 1>>,
     datos_empleado |-> [cargo |-> NoneTxt, empresa |-> NoneTxt]]

\* a record that differs from the empty one in its header fields; v picks
\* the values, mascara which of them the document carries
Encabezado(tipo, v, mascara) ==
    LET con_emo == mascara # "vacio"
        con_aptitud == mascara = "completo"
    IN [HistoriaVacia EXCEPT
          !.tipo_documento_fuente = tipo,
          !.tipo_emo = IF con_emo THEN (IF v = 1 THEN "periodico" ELSE "retiro") ELSE None,
          !.fecha_emo = IF con_emo THEN v + 1 ELSE NoFecha,
          !.signos_vitales = IF con_emo THEN v ELSE 0,
          !.aptitud_laboral =
              IF con_aptitud THEN (IF v = 1 THEN "apto" ELSE "apto_con_restricciones")
              ELSE None,
          !.restricciones_especificas =
              IF con_emo /\ v = 2 THEN <<"n","o"," ","c","a","r","g","a","r">> ELSE NoneTxt,
          !.genera_reincorporacion = (con_emo /\ v = 2),
          !.causa_reincorporacion = IF con_emo /\ v = 2 THEN <<"a","t">> ELSE NoneTxt]

Encabezados ==
    {Encabezado(t, v, "completo") : t \in TIPOS_DOCUMENTO, v \in DOMAIN Bloques}
    \cup {Encabezado(t, 2, m) : t \in TIPOS_DOCUMENTO, m \in {"sin_aptitud", "vacio"}}

Diagnostico(cod, desc, conf) ==
    [codigo_cie10 |-> cod, descripcion |-> desc, confianza |-> conf]

DiagnosticosFuente ==
    {Diagnostico(<<"M","5","4",".","5">>, <<"a">>, 9), Diagnostico(<<"M","5","4",".","5">>, <<"b">>, 9),
     Diagnostico(<<"M","5","4",".","5">>, <<"c">>, 5), Diagnostico(<<"H","5","2",".","1">>, <<"a">>, 9),
     Diagnostico(<<>>, <<"a">>, 9)}

Examen(tipo, nombre, fecha, interp, resultado) ==
    [tipo |-> tipo, nombre |-> nombre, fecha |-> fecha, interpretacion |-> interp,
     resultado |-> resultado, hallazgos_clave |-> NoneTxt]

\* the same exam as a hand-built dict that also carries 'fecha_realizacion'
ConFechaRealizacion(exam) ==
    [k \in DOMAIN exam \cup {"fecha_realizacion"} |->
        IF k = "fecha_realizacion" THEN exam.fecha ELSE exam[k]]

ExamenesFuente ==
    {Examen("laboratorio", "a", 1, "alterado", <<"x">>),
     Examen("laboratorio", "b", 2, "alterado", <<"x">>),
     Examen("laboratorio", "c", 2, "normal", <<"N","o","r","m","a","l"," ">>),
     ConFechaRealizacion(Examen("optometria", "d", 1, "normal", <<"x">>)),
     Examen("", "f", 1, "alterado", <<"x">>)}

Antecedente(tipo, desc, fecha, activo) ==
    [tipo |-> tipo, descripcion |-> desc, fecha_aproximada |-> fecha, activo |-> activo]

AntecedentesFuente ==
    {Antecedente("patologico", <<"h","t","a">>, NoFecha, TRUE),
     Antecedente("patologico", <<" ","H","T","A">>, 2, TRUE),
     Antecedente("patologico", <<"h","t","a">>, 1, FALSE),
     Antecedente("quirurgico", <<"h","t","a">>, NoFecha, TRUE),
     Antecedente("patologico", <<" ">>, 1, TRUE)}

ConLista(campo, entradas) ==
    {[HistoriaVacia EXCEPT ![campo] = l] : l \in SeqsUpTo(entradas, MaxItems)}

\* the ways to cut a list into d consecutive pieces, empty pieces included
RECURSIVE Trozos(_, _)
Trozos(l, d) ==
    IF d = 1 THEN {<<l>>}
    ELSE UNION {{<<SubSeq(l, 1, k)>> \o r : r \in Trozos(SubSeq(l, k + 1, Len(l)), d - 1)} :
                k \in 0..Len(l)}

\* up to MaxDocs records that carry between them up to MaxItems entries
Documentos(campo, entradas) ==
    {[i \in DOMAIN t |-> [HistoriaVacia EXCEPT ![campo] = t[i]]] :
        t \in UNION {Trozos(l, d) : l \in SeqsUpTo(entradas, MaxItems), d \in 1..MaxDocs}}

\* the same document processed twice
Duplicados(campo, entradas) == {<<h, h>> : h \in ConLista(campo, entradas)}

\* recommendations as the extraction may return them
RecomendacionesExtraidas ==
    {[tipo |-> "seguimiento",
      descripcion |-> <<"C","o","n","t","r","o","l"," ","m","e^","d","i","c","o">>],
     [tipo |-> "remision_especialista",
      descripcion |-> <<"c","o","n","t","r","o","l"," ","m","e","d","i","c","o">>],
     [tipo |-> "seguimiento",
      descripcion |-> <<"U","s","o"," ","d","e"," ","E","P","P">>]}

\* records whose recommendations went through the post-processing of
\* ClaudeProcessor.process: the filter, then the deduplication
RegistrosConRecomendaciones ==
    {[HistoriaVacia EXCEPT !.recomendaciones =
         deduplicate_recommendations(filter_recommendations(l, HistoriaVacia))] :
     l \in SeqsUpTo(RecomendacionesExtraidas, MaxRecs)}

ConEmpleado(tipo, cargo, empresa) ==
    [HistoriaVacia EXCEPT !.tipo_documento_fuente = tipo,
                          !.datos_empleado = [cargo |-> cargo, empresa |-> empresa]]

\* records that carry employee data, with specific values and with the
\* labels that stand for no value
RegistrosConEmpleado ==
    {ConEmpleado("examen_especifico", <<"S","o","l","d","a","d","o","r">>, <<"A","c","m","e">>),
     ConEmpleado("examen_especifico", <<"t","r","a","b","a","j","a","d","o","r">>, NoneTxt),
     ConEmpleado("examen_especifico", <<"E","m","p","l","e","a","d","o">>, <<"A","c","m","e">>),
     ConEmpleado("hc_completa", <<"T","r","a","b","a","j","a","d","o","r">>, <<"P","E","R","S","O","N","A","L">>),
     ConEmpleado("hc_completa", <<"O","p","e","r","a","r","i","o">>, <<>>),
     ConEmpleado("cmo", <<"E","m","p","l","e","a","d","o">>, <<"B","e","t","a">>)}

\* records with one antecedent each: the same condition written with an
\* accent, in capitals, and with a run of two spaces
RegistrosConAntecedente ==
    {[HistoriaVacia EXCEPT !.antecedentes = <<a>>] :
        a \in {Antecedente("patologico", <<"h","t","a"," ","c","r","o^","n","i","c","a">>, NoFecha, TRUE),
               Antecedente("patologico", <<"H","T","A"," ","c","r","o","n","i","c","a">>, 1, TRUE),
               Antecedente("patologico", <<"h","t","a"," "," ","c","r","o","n","i","c","a">>, 2, TRUE)}}

\* the inputs: any list of header records, and lists of records that carry
\* diagnoses, exams or antecedents; the empty list is the rejected call
Entradas_Validas ==
    SeqsUpTo(Encabezados, MaxHistorias)
    \cup Documentos("diagnosticos", DiagnosticosFuente)
    \cup Duplicados("diagnosticos", DiagnosticosFuente)
    \cup Documentos("examenes", ExamenesFuente)
    \cup Duplicados("examenes", ExamenesFuente)
    \cup Documentos("antecedentes", AntecedentesFuente)
    \cup Duplicados("antecedentes", AntecedentesFuente)
    \cup SeqsUpTo(RegistrosConRecomendaciones, MaxDocs)
    \cup SeqsUpTo(RegistrosConEmpleado, MaxDocs)
    \cup SeqsUpTo(RegistrosConAntecedente, MaxDocs)


\* ------------------------------------------------------ recommendations
\* rec.get('prioridad', 'media') mapped through {'alta': 3, 'media': 2, 'baja': 1}
Prioridad(rec) ==
    LET p == IF "prioridad" \in DOMAIN rec THEN rec.prioridad ELSE "media"
    IN CASE p = "alta" -> 3 [] p = "baja" -> 1 [] OTHER -> 2

RECURSIVE RecLoop(_, _)
RecLoop(d, recs) ==
    IF recs = <<>> THEN d
    ELSE LET rec == Head(recs)
             descripcion == LowerText(Strip(rec.descripcion))
             key == <<rec.tipo, descripcion>>
             d2 == IF descripcion = <<>> THEN d
                   ELSE IF ~DictHas(d, key) THEN DictPut(d, key, rec)
                   ELSE IF Prioridad(rec) > Prioridad(DictGet(d, key))
                        THEN DictPut(d, key, rec)
                        ELSE d
         IN RecLoop(d2, Tail(recs))

merge_recomendaciones(hs) == DictValues(RecLoop(<<>>, Entradas(hs, "recomendaciones")))

\* -------------------------------------------------------- employee data
\* for key, value in empleado.items(): the body of both loops; prioritaria
\* is TRUE in the loop over the complete histories
ActualizarEmpleado(d, empleado, prioritaria) ==
    LET paso(acc, key) ==
            LET value == empleado[key]
            IN IF value # NoneTxt /\ value # <<>> /\ value # <<"E","m","p","l","e","a","d","o">>
               THEN IF prioritaria /\ key = "cargo"
                    THEN IF LowerText(value) \notin {<<"e","m","p","l","e","a","d","o">>,
                                                     <<"t","r","a","b","a","j","a","d","o","r">>,
                                                     <<"p","e","r","s","o","n","a","l">>}
                         THEN DictPut(acc, key, value)
                         ELSE acc
                    ELSE DictPut(acc, key, value)
               ELSE acc
    IN paso(paso(d, "cargo"), "empresa")

RECURSIVE EmpleadoLoop(_, _, _)
EmpleadoLoop(d, hs, prioritaria) ==
    IF hs = <<>> THEN d
    ELSE EmpleadoLoop(ActualizarEmpleado(d, Head(hs).datos_empleado, prioritaria),
                      Tail(hs), prioritaria)

\* the datos_empleado dict of the consolidated record
merge_datos_empleado(hs) ==
    EmpleadoLoop(EmpleadoLoop(<<>>, examenes_especificos(hs), FALSE),
                 hcs_completas(hs), TRUE)

\* -------------------------------------------------------- consolidation
Extender(r, k, v) == [x \in DOMAIN r \cup {k} |-> IF x = k THEN v ELSE r[x]]

\* the dict built by the merge part of consolidate_historias, before the
\* validation block; servicio selects the exam merge of the service
Fusionar(hs, base, servicio) ==
    LET apt == FuenteAptitud(hs, base)
        diags == merge_diagnosticos(hs)
    IN [base EXCEPT
          !.signos_vitales = SelectSignosVitales(hs),
          !.tipo_emo = SelectEmo(hs, base, "tipo_emo"),
          !.fecha_emo = SelectEmo(hs, base, "fecha_emo"),
          !.diagnosticos = diags,
          !.antecedentes = merge_antecedentes(hs),
          !.examenes = IF servicio THEN _merge_examenes(hs) ELSE merge_examenes(hs),
          !.recomendaciones = merge_recomendaciones(hs),
          !.datos_empleado = merge_datos_empleado(hs),
          !.alertas_validacion = <<>>,
          !.aptitud_laboral = apt.aptitud_laboral,
          !.restricciones_especificas = apt.restricciones_especificas,
          !.genera_reincorporacion = apt.genera_reincorporacion,
          !.causa_reincorporacion = apt.causa_reincorporacion,
          !.confianza_extraccion = ConfianzaPromedio(diags, base)]

\* variant: the except branch reports the failure as one alert
AlertasTrasFalloMut ==
    <<Alerta("evaluacion_incompleta", "media", Campo.diagnosticos, Desc.SinDiagnosticos)>>

\* the alert list left in the dict when the try block raises
AlertasTrasFallo == <<>>

SinResultado == [tipo_documento_fuente |-> None]

SinVeredicto == [op |-> "none", excepcion |-> FALSE, alertas |-> <<>>]

\* entrada and salida when no filter or validator call is made
SinLlamada == <<>>

\* what consolidate_person.consolidate_historias returns for a non-empty
\* list: the record, the dict objects as it leaves them, and whether the
\* validation of the record raised
ResultadoCli(hs, hp) ==
    LET c0 == Extender(Fusionar(hs, BaseCli(hs), FALSE),
                       "total_documentos_consolidados", Len(hs))
        c1 == [c0 EXCEPT !.tipo_documento_fuente = "consolidado"]
        ok == ModelValidateAcepta(c1, hp)
        obj == HistoriaObj(c1)
        alertas == IF ok
                   THEN filter_alerts(validate_historia_completa(obj, hp), obj)
                   ELSE AlertasTrasFallo
    IN [consolidada |-> [c1 EXCEPT !.alertas_validacion = alertas],
        heap |-> hp, fallo |-> ~ok]

\* what ProcessorService._consolidate_historias returns for a non-empty list
ResultadoService(hs, hp) ==
    LET c0 == Extender(Fusionar(hs, BaseService(hs), TRUE),
                       "num_documentos_consolidados", Len(hs))
        sv == c0.signos_vitales
        \* validate_signos_vitales writes into the selected dict object
        heap2 == IF sv # 0
                 THEN [hp EXCEPT ![sv] = SignosValidados(hp[sv])]
                 ELSE hp
        pre_signos == IF sv # 0 THEN AlertasSignos(hp[sv], validaciones)
                      ELSE <<>>
        norm == normalize_aptitud_laboral(c0.aptitud_laboral)
        c1 == [c0 EXCEPT !.tipo_documento_fuente = "consolidado",
                         !.aptitud_laboral = norm[1]]
        alertas_preprocesamiento == pre_signos \o norm[2]
        ok == ModelValidateAcepta(c1, heap2)
        obj == HistoriaObj(c1)
        alertas ==
            IF ok
            THEN filter_alerts(validate_historia_completa(obj, heap2)
                               \o validate_diagnosis_exam_consistency(obj)
                               \o validate_examenes_criticos_sin_reflejo(obj)
                               \o alertas_preprocesamiento, obj)
            ELSE AlertasTrasFallo
    IN [consolidada |-> [c1 EXCEPT !.alertas_validacion = alertas],
        heap |-> heap2, fallo |-> ~ok]

\* consolidate_person.consolidate_historias
consolidate_historias ==
    /\ pc = "ready"
    /\ via' = "cli"
    /\ UNCHANGED <<historias, heap, codigo, veredicto, entrada, salida>>
    /\ UNCHANGED almacenVars
    /\ IF historias = <<>>
       THEN /\ pc' = "rejected"
            /\ UNCHANGED <<consolidada, fallo>>
       ELSE \E r \in {ResultadoCli(historias, heap)} :
               /\ consolidada' = r.consolidada
               /\ fallo' = r.fallo
               /\ pc' = "done"

\* ProcessorService._consolidate_historias
_consolidate_historias ==
    /\ pc = "ready"
    /\ via' = "service"
    /\ UNCHANGED <<historias, codigo, veredicto, entrada, salida>>
    /\ UNCHANGED almacenVars
    /\ IF historias = <<>>
       THEN /\ pc' = "rejected"
            /\ UNCHANGED <<consolidada, fallo, heap>>
       ELSE \E r \in {ResultadoService(historias, heap)} :
               /\ heap' = r.heap
               /\ consolidada' = r.consolidada
               /\ fallo' = r.fallo
               /\ pc' = "done"

Init ==
    /\ SinServicio
    /\ historias \in Entradas_Validas
    /\ heap = Bloques
    /\ consolidada = SinResultado
    /\ pc = "ready"
    /\ via = "none"
    /\ fallo = FALSE
    /\ codigo = <<>>
    /\ veredicto = SinVeredicto
    /\ entrada = SinLlamada
    /\ salida = SinLlamada

Next == consolidate_historias \/ _consolidate_historias

Spec == Init /\ [][Next]_vars


\* ------------------------------------------- diagnosis-code validation
MaxCodeLen == 5

CodeAlphabet == {"C", "U", "c", "9", "0", ".", " "}

\* HistoriaClinicaEstructurada.model_validate on a record holding one
\* diagnosis with the code, followed by validate_diagnosis_list on the
\* validated diagnoses (the validation block of the consolidation)
ValidarRegistro ==
    /\ veredicto.op = "none"
    /\ veredicto' =
         IF DiagnosticoAcepta(codigo)
         THEN [op |-> "registro", excepcion |-> FALSE,
               alertas |-> validate_diagnosis_list(
                               <<Diagnostico(Upper(codigo), <<"a">>, 9)>>)]
         ELSE [op |-> "registro", excepcion |-> TRUE, alertas |-> <<>>]
    /\ UNCHANGED <<historias, heap, consolidada, pc, via, fallo, codigo, entrada, salida>>
    /\ UNCHANGED almacenVars

\* CIE10Validator.validate_diagnosis_list on a diagnosis object that holds
\* the code as given
ValidarLista ==
    /\ veredicto.op = "none"
    /\ veredicto' = [op |-> "lista", excepcion |-> FALSE,
                     alertas |-> validate_diagnosis_list(
                                     <<Diagnostico(codigo, <<"a">>, 9)>>)]
    /\ UNCHANGED <<historias, heap, consolidada, pc, via, fallo, codigo, entrada, salida>>
    /\ UNCHANGED almacenVars

\* CIE10Validator.validate_format on the code as given
ValidarFormato ==
    /\ veredicto.op = "none"
    /\ veredicto' = [op |-> "formato", excepcion |-> FALSE, alertas |-> <<>>]
    /\ salida' = validate_format(codigo)
    /\ UNCHANGED <<historias, heap, consolidada, pc, via, fallo, codigo, entrada>>
    /\ UNCHANGED almacenVars

InitCIE10 ==
    /\ SinServicio
    /\ codigo \in SeqsUpTo(CodeAlphabet, MaxCodeLen)
    /\ veredicto = SinVeredicto
    /\ entrada = SinLlamada
    /\ salida = SinLlamada
    /\ historias = <<>>
    /\ heap = Bloques
    /\ consolidada = SinResultado
    /\ pc = "idle"
    /\ via = "none"
    /\ fallo = FALSE

NextCIE10 == ValidarRegistro \/ ValidarLista \/ ValidarFormato

SpecCIE10 == InitCIE10 /\ [][NextCIE10]_vars


\* =====================================================================
\* Properties of the consolidation (under Spec) and of the diagnosis-code
\* validation (under SpecCIE10)
\* =====================================================================

\* the entries the merge iterates over, in iteration order
FuenteDiagnosticos == Entradas(historias, "diagnosticos")

\* C1: in every consolidated record the diagnoses are unique by code, each
\* code present in the sources appears, and the entry kept for a code is the
\* source entry of highest confidence, the first one met among equal
\* confidences
C1_DiagnosticosUnicosPorCodigo ==
    pc = "done" =>
        LET src == FuenteDiagnosticos
            out == consolidada.diagnosticos
        IN /\ \A i, j \in DOMAIN out :
                 out[i].codigo_cie10 = out[j].codigo_cie10 => i = j
           /\ \A i \in DOMAIN out :
                 \E k \in DOMAIN src :
                    /\ src[k] = out[i]
                    /\ \A m \in DOMAIN src :
                          src[m].codigo_cie10 = out[i].codigo_cie10 =>
                             \/ src[m].confianza < src[k].confianza
                             \/ (src[m].confianza = src[k].confianza /\ m >= k)
           /\ \A k \in DOMAIN src :
                 src[k].codigo_cie10 # <<>> =>
                    \E i \in DOMAIN out : out[i].codigo_cie10 = src[k].codigo_cie10

\* a finished consolidation whose sources held, for one code, a low
\* confidence entry, then a higher one, then a different entry that ties
\* with it; the middle one was kept
C1_Witness ==
    /\ pc = "done"
    /\ \E k, m, n \in DOMAIN FuenteDiagnosticos :
          LET src == FuenteDiagnosticos
          IN /\ k < m /\ m < n
             /\ src[k].codigo_cie10 = src[m].codigo_cie10
             /\ src[m].codigo_cie10 = src[n].codigo_cie10
             /\ src[k].confianza < src[m].confianza
             /\ src[m].confianza = src[n].confianza
             /\ src[m] # src[n]
             /\ \E i \in DOMAIN consolidada.diagnosticos :
                   consolidada.diagnosticos[i] = src[m]

FuenteExamenes ==
    SelectSeq(Entradas(historias, "examenes"),
              LAMBDA e : e.tipo # "" /\ (via = "service" => _es_examen_relevante(e)))

\* C2: in every consolidated record the exams hold exactly one entry per
\* (type, date) pair of the merged source exams, the entry kept for a pair
\* is the one processed last, and the list is ordered by date, most recent
\* first
C2_ExamenesUnoPorTipoYFecha ==
    pc = "done" =>
        LET src == FuenteExamenes
            out == consolidada.examenes
        IN /\ \A i, j \in DOMAIN out :
                 (out[i].tipo = out[j].tipo /\ out[i].fecha = out[j].fecha) => i = j
           /\ \A k \in DOMAIN src :
                 \E i \in DOMAIN out :
                    /\ out[i].tipo = src[k].tipo /\ out[i].fecha = src[k].fecha
                    /\ \E m \in DOMAIN src :
                          /\ m >= k /\ src[m] = out[i]
                          /\ \A n \in DOMAIN src :
                                (src[n].tipo = src[k].tipo /\ src[n].fecha = src[k].fecha)
                                   => n <= m
           /\ \A i \in DOMAIN out : \E k \in DOMAIN src : src[k] = out[i]
           /\ \A i, j \in DOMAIN out : i < j => out[i].fecha >= out[j].fecha

ConAptitud == {i \in DOMAIN historias : historias[i].aptitud_laboral # None}

Ultimo(S) == CHOOSE i \in S : \A j \in S : j <= i

Primero(S) == CHOOSE i \in S : \A j \in S : i <= j

Prioritarias ==
    {i \in DOMAIN historias : historias[i].tipo_documento_fuente \in {"hc_completa", "cmo"}}

\* C3: when some source record has a work fitness, the consolidated work
\* fitness is that of the last high-priority record that has one, or, when
\* no high-priority record has one, that of the last record of any type
\* that has one; restrictions and the reincorporation flags come from that
\* same record
C3_AptitudDeLaUltimaPrioritaria ==
    (pc = "done" /\ ConAptitud # {}) =>
        LET k == IF ConAptitud \cap Prioritarias # {}
                 THEN Ultimo(ConAptitud \cap Prioritarias)
                 ELSE Ultimo(ConAptitud)
        IN /\ consolidada.aptitud_laboral = historias[k].aptitud_laboral
           /\ consolidada.restricciones_especificas = historias[k].restricciones_especificas
           /\ consolidada.genera_reincorporacion = historias[k].genera_reincorporacion
           /\ consolidada.causa_reincorporacion = historias[k].causa_reincorporacion

\* two high-priority records with different work fitness and restrictions,
\* then a specific-exam record that has a work fitness too: the second
\* high-priority record was the source
C3_Witness ==
    /\ pc = "done"
    /\ Len(historias) = 3
    /\ {1, 2} \subseteq ConAptitud \cap Prioritarias
    /\ 3 \in ConAptitud \ Prioritarias
    /\ historias[1].aptitud_laboral # historias[2].aptitud_laboral
    /\ historias[3].aptitud_laboral # historias[2].aptitud_laboral
    /\ historias[1].restricciones_especificas # historias[2].restricciones_especificas
    /\ consolidada.aptitud_laboral = historias[2].aptitud_laboral
    /\ consolidada.restricciones_especificas = historias[2].restricciones_especificas


Nulo(campo) == IF campo = "fecha_emo" THEN NoFecha ELSE None

ConCampo(campo) ==
    {i \in Prioritarias :
        IF campo = "fecha_emo" THEN historias[i].fecha_emo # NoFecha
        ELSE historias[i].tipo_emo # None}

\* C4 as stated: evaluation type and date are those of the first
\* high-priority record that has a value, and null when no high-priority
\* record has one; never a specific-exam record's value
C4_EmoSoloDePrioritarias ==
    pc = "done" =>
        \A campo \in {"tipo_emo", "fecha_emo"} :
            consolidada[campo] =
                IF ConCampo(campo) # {}
                THEN historias[Primero(ConCampo(campo))][campo]
                ELSE Nulo(campo)

\* C4 as the code has it: evaluation type and date are those of the first
\* high-priority record that has a value; when high-priority records exist
\* and none has a value the field is null; when the input has no
\* high-priority record at all the field keeps the value of the first input
\* record, a specific-exam record
C4_EmoDePrioritariasOPrimera ==
    pc = "done" =>
        \A campo \in {"tipo_emo", "fecha_emo"} :
            consolidada[campo] =
                IF ConCampo(campo) # {}
                THEN historias[Primero(ConCampo(campo))][campo]
                ELSE IF Prioritarias # {} THEN Nulo(campo)
                ELSE historias[1][campo]

\* only specific-exam records, the first with an evaluation type and date,
\* the second with other ones: the consolidated record carries the first's
C4_Witness ==
    /\ pc = "done"
    /\ Len(historias) >= 2
    /\ Prioritarias = {}
    /\ historias[1].fecha_emo # NoFecha
    /\ historias[1].tipo_emo # None
    /\ historias[2].fecha_emo \notin {NoFecha, historias[1].fecha_emo}
    /\ consolidada.fecha_emo = historias[1].fecha_emo
    /\ consolidada.tipo_emo = historias[1].tipo_emo

Clase(h) == h.tipo_documento_fuente \in {"hc_completa", "cmo"}

\* the orderings of a record list that keep the relative order of the
\* records of one priority class
Reordenamientos(hs) ==
    LET n == Len(hs)
        perms == {p \in [1..n -> 1..n] : \A i, j \in 1..n : p[i] = p[j] => i = j}
        ok(p) == \A i, j \in 1..n :
                    (i < j /\ Clase(hs[p[i]]) = Clase(hs[p[j]])) => p[i] < p[j]
    IN {[i \in 1..n |-> hs[p[i]]] : p \in {q \in perms : ok(q)}}

BaseDe(hs) == IF via = "cli" THEN BaseCli(hs) ELSE BaseService(hs)

AptitudDe(hs) ==
    LET a == FuenteAptitud(hs, BaseDe(hs)).aptitud_laboral
    IN IF via = "cli" THEN a ELSE normalize_aptitud_laboral(a)[1]

\* C5: the consolidated work fitness, evaluation date and vital signs are
\* what the same entry point selects from any other ordering of the input
\* that keeps the relative order of the records of each priority class
C5_OrdenEntreClasesNoCambia ==
    pc = "done" =>
        \A h2 \in Reordenamientos(historias) :
            /\ consolidada.aptitud_laboral = AptitudDe(h2)
            /\ consolidada.fecha_emo = SelectEmo(h2, BaseDe(h2), "fecha_emo")
            /\ consolidada.signos_vitales = SelectSignosVitales(h2)

\* an input that opens with a specific-exam record followed by a
\* high-priority one, both with work fitness, date and vital signs that
\* differ: it has another ordering, and the three fields are filled
C5_Witness ==
    /\ pc = "done"
    /\ Len(historias) >= 2
    /\ ~Clase(historias[1]) /\ Clase(historias[2])
    /\ historias[1].signos_vitales # 0 /\ historias[2].signos_vitales # 0
    /\ historias[1].signos_vitales # historias[2].signos_vitales
    /\ historias[1].fecha_emo # historias[2].fecha_emo
    /\ historias[1].aptitud_laboral \notin {None, historias[2].aptitud_laboral}
    /\ historias[2].aptitud_laboral # None
    /\ consolidada.signos_vitales = historias[2].signos_vitales
    /\ consolidada.fecha_emo = historias[2].fecha_emo
    /\ consolidada.aptitud_laboral = historias[2].aptitud_laboral

ExamenesDe(hs) == IF via = "cli" THEN merge_examenes(hs) ELSE _merge_examenes(hs)

\* C6: consolidating a list that holds the same record twice gives the
\* diagnoses, exams and antecedents of consolidating that record alone
C6_DuplicadoNoCambia ==
    (pc = "done" /\ Len(historias) = 2 /\ historias[1] = historias[2]) =>
        /\ consolidada.diagnosticos = merge_diagnosticos(<<historias[1]>>)
        /\ consolidada.examenes = ExamenesDe(<<historias[1]>>)
        /\ consolidada.antecedentes = merge_antecedentes(<<historias[1]>>)

\* a record with two diagnoses of different codes, consolidated twice over:
\* the result holds two diagnoses, not four
C6_Witness ==
    /\ pc = "done"
    /\ Len(historias) = 2
    /\ historias[1] = historias[2]
    /\ Len(historias[1].diagnosticos) = 2
    /\ historias[1].diagnosticos[1].codigo_cie10 # <<>>
    /\ historias[1].diagnosticos[2].codigo_cie10 # <<>>
    /\ historias[1].diagnosticos[1].codigo_cie10 # historias[1].diagnosticos[2].codigo_cie10
    /\ Len(consolidada.diagnosticos) = 2

FCFueraDeRango(b) == b.frecuencia_cardiaca # NoneNum /\
                     (b.frecuencia_cardiaca < 40 \/ b.frecuencia_cardiaca > 200)

\* C8: when the selected source vital signs carry a heart rate outside
\* 40..200, the consolidated record's heart rate is null and its alerts
\* hold a high-severity critical-value alert
C8_FrecuenciaCardiacaFueraDeRango ==
    (pc = "done" /\ consolidada.signos_vitales # 0
                 /\ FCFueraDeRango(Bloques[consolidada.signos_vitales])) =>
        /\ heap[consolidada.signos_vitales].frecuencia_cardiaca = NoneNum
        /\ \E i \in DOMAIN consolidada.alertas_validacion :
              /\ consolidada.alertas_validacion[i].tipo = "valor_critico"
              /\ consolidada.alertas_validacion[i].severidad = "alta"

\* C9 as stated: when the validation of the merged record raises, the
\* merged record is returned with exactly one alert, of medium severity and
\* type incomplete evaluation
C9_FalloDejaUnaAlerta ==
    (pc = "done" /\ fallo) =>
        /\ consolidada.tipo_documento_fuente = "consolidado"
        /\ Len(consolidada.alertas_validacion) = 1
        /\ consolidada.alertas_validacion[1].tipo = "evaluacion_incompleta"
        /\ consolidada.alertas_validacion[1].severidad = "media"

\* C9 as the code has it: when the validation of the merged record raises,
\* the merged record is returned and its alert list is empty
C9_FalloDejaAlertasVacias ==
    (pc = "done" /\ fallo) =>
        /\ consolidada.tipo_documento_fuente = "consolidado"
        /\ consolidada.diagnosticos = merge_diagnosticos(historias)
        /\ consolidada.alertas_validacion = <<>>

\* the validation raised on a merged record whose vital signs carried an
\* out-of-range heart rate: the record is there, its alert list is empty
C9_Witness ==
    /\ pc = "done"
    /\ fallo
    /\ consolidada.signos_vitales # 0
    /\ FCFueraDeRango(Bloques[consolidada.signos_vitales])
    /\ consolidada.alertas_validacion = <<>>

CodigoLimpio == Strip(Upper(codigo))

EsLetraYDosDigitos(c) ==
    Len(c) >= 3 /\ IsUpperChar(c[1]) /\ IsDigitChar(c[2]) /\ IsDigitChar(c[3])

FormaCorta(c) == Len(c) = 3 /\ EsLetraYDosDigitos(c)

FormaCompleta(c) ==
    /\ Len(c) \in {5, 6} /\ EsLetraYDosDigitos(c) /\ c[4] = "."
    /\ \A i \in 5..Len(c) : IsDigitChar(c[i])

HayAlerta(tipo, severidad) ==
    \E i \in DOMAIN veredicto.alertas :
        /\ veredicto.alertas[i].tipo = tipo
        /\ veredicto.alertas[i].severidad = severidad

\* C10: record validation never raises on a diagnosis code: a short-form
\* code is accepted with a low-severity malformed-value alert, a full-form
\* code of a valid chapter yields no alert, and a code that violates the
\* base pattern yields a high-severity alert
C10_CodigoNuncaRechazaElRegistro ==
    veredicto.op = "registro" =>
        /\ ~veredicto.excepcion
        /\ FormaCorta(CodigoLimpio) /\ validate_format(codigo)[1]
              => HayAlerta("formato_incorrecto", "baja")
        /\ FormaCompleta(CodigoLimpio) /\ validate_format(codigo)[1]
              => veredicto.alertas = <<>>
        /\ ~(FormaCorta(CodigoLimpio) \/ FormaCompleta(CodigoLimpio))
              => \E i \in DOMAIN veredicto.alertas : veredicto.alertas[i].severidad = "alta"


\* ------------------------------------------------- alert filter calls
MaxAlertas == 2

TIPOS_ALERTA ==
    {"inconsistencia_diagnostica", "dato_faltante", "valor_critico",
     "formato_incorrecto", "evaluacion_incompleta"}

\* <<descripcion, campo_afectado>> of the alerts handed to the filter
TextosAlerta ==
    {<<<<"F","a","l","t","a"," ","e","m","p","r","e","s","a">>,
       <<"d","a","t","o","s","_","e","m","p","l","e","a","d","o">>>>,
     <<<<"d","a","t","o"," ","e","m","p","r","e","s","a","r","i","a","l"," ","a","u","s","e","n","t","e">>,
       <<"o","t","r","o","s">>>>,
     <<<<"s","i","n"," ","d","a","t","o">>,
       <<"d","a","t","o","s","_","e","m","p","l","e","a","d","o",".","E","P","S">>>>,
     <<<<"s","i","n"," ","t","i","p","o","_","e","m","o">>,
       <<"t","i","p","o","_","e","m","o">>>>,
     <<<<"f","a","l","t","a"," ","p","e","s","o">>,
       <<"s","i","g","n","o","s","_","v","i","t","a","l","e","s">>>>,
     <<<<"r","e","v","i","s","a","r">>,
       <<"c","a","r","g","o","_","a","c","t","u","a","l">>>>}

\* missing-data alerts with every text, and one alert of each kind whose
\* text names an administrative field
AlertasFuente ==
    {Alerta("dato_faltante", "media", x[2], x[1]) : x \in TextosAlerta}
    \cup {Alerta(t, "media", <<"d","a","t","o","s","_","e","m","p","l","e","a","d","o">>,
                 <<"F","a","l","t","a"," ","e","m","p","r","e","s","a">>) : t \in TIPOS_ALERTA}

\* validated records of each source type, with and without the header fields
RegistrosFiltro ==
    {Encabezado(t, 1, "completo") : t \in TIPOS_DOCUMENTO}
    \cup {Encabezado(t, 2, "vacio") : t \in TIPOS_DOCUMENTO}

\* filter_alerts(alertas, historia)
FiltrarAlertas ==
    /\ pc = "idle"
    /\ entrada # SinLlamada
    /\ salida' = filter_alerts(entrada.alertas, entrada.historia)
    /\ pc' = "filtrado"
    /\ UNCHANGED <<historias, heap, consolidada, via, fallo, codigo, veredicto, entrada>>
    /\ UNCHANGED almacenVars

InitFiltro ==
    /\ SinServicio
    /\ entrada \in [alertas : SeqsUpTo(AlertasFuente, MaxAlertas),
                    historia : RegistrosFiltro]
    /\ salida = SinLlamada
    /\ historias = <<>>
    /\ heap = Bloques
    /\ consolidada = SinResultado
    /\ pc = "idle"
    /\ via = "none"
    /\ fallo = FALSE
    /\ codigo = <<>>
    /\ veredicto = SinVeredicto

NextFiltro == FiltrarAlertas

SpecFiltro == InitFiltro /\ [][NextFiltro]_vars

SiempreConservadas ==
    {"inconsistencia_diagnostica", "formato_incorrecto", "valor_critico"}

\* C11: every input alert of kind diagnostic inconsistency, malformed value
\* or critical value is in the output of filter_alerts, as many times and in
\* the same relative order, whatever its texts and the record's source type
C11_ListaBlancaSeConserva ==
    pc = "filtrado" =>
        SelectSeq(salida, LAMBDA a : a.tipo \in SiempreConservadas)
            = SelectSeq(entrada.alertas, LAMBDA a : a.tipo \in SiempreConservadas)

\* the same critical-value alert twice, its description naming an
\* administrative field, on a specific-exam record: both copies came out
C11_Witness ==
    /\ pc = "filtrado"
    /\ Len(entrada.alertas) = 2
    /\ entrada.alertas[1] = entrada.alertas[2]
    /\ entrada.alertas[1].tipo = "valor_critico"
    /\ entrada.alertas[1].descripcion = <<"F","a","l","t","a"," ","e","m","p","r","e","s","a">>
    /\ entrada.historia.tipo_documento_fuente = "examen_especifico"
    /\ salida = entrada.alertas

EsDePalabra(t) == t \in Range(Lowercase) \cup Range(Uppercase) \cup Range(Digits) \cup
                       {"_", "a^", "e^", "i^", "o^", "u^", "n~",
                        "A^", "E^", "I^", "O^", "U^", "N~"}

\* an administrative field name stands in s as a whole word, in any case
NombreComoPalabra(s) ==
    \E w \in ADMINISTRATIVE_FIELDS : \E i \in 1..(Len(s) - Len(w) + 1) :
        /\ \A k \in 1..Len(w) : LowerTok(s[i + k - 1]) = w[k]
        /\ i > 1 => ~EsDePalabra(s[i - 1])
        /\ i + Len(w) <= Len(s) => ~EsDePalabra(s[i + Len(w)])

\* no rule of the filter other than the administrative one applies
SinOtraRegla(a, h) ==
    /\ ~is_signos_vitales_alert_in_cmo(a, h)
    /\ ~is_covered_in_consolidated(a, h)
    /\ ~is_invalid_for_exam_especifico(a, h)

\* C12: filter_alerts removes every missing-data alert whose description or
\* affected field holds an administrative field name as a whole word; a
\* missing-data alert that holds such a name only inside a longer word, and
\* that no other rule removes, is kept
C12_AdministrativasPorPalabraCompleta ==
    pc = "filtrado" =>
        \A i \in DOMAIN entrada.alertas :
            LET a == entrada.alertas[i]
            IN a.tipo = "dato_faltante" =>
                  IF NombreComoPalabra(a.descripcion) \/ NombreComoPalabra(a.campo_afectado)
                  THEN a \notin Range(salida)
                  ELSE SinOtraRegla(a, entrada.historia) => a \in Range(salida)

\* two missing-data alerts on a complete-history record: one names the
\* employer as a word and is gone, the other holds it inside a longer word
\* and is still there
C12_Witness ==
    /\ pc = "filtrado"
    /\ Len(entrada.alertas) = 2
    /\ entrada.alertas[1].tipo = "dato_faltante"
    /\ entrada.alertas[2].tipo = "dato_faltante"
    /\ entrada.alertas[1].descripcion = <<"F","a","l","t","a"," ","e","m","p","r","e","s","a">>
    /\ entrada.alertas[2].descripcion = <<"d","a","t","o"," ","e","m","p","r","e","s","a","r","i","a","l"," ","a","u","s","e","n","t","e">>
    /\ entrada.historia.tipo_documento_fuente = "hc_completa"
    /\ salida = <<entrada.alertas[2]>>


\* ------------------------------------------ recommendation filter calls
RecomendacionesFuente ==
    {[tipo |-> "seguimiento", descripcion |-> d] : d \in {
     \* generic phrase: "Uso de EPP"
     <<"U","s","o"," ","d","e"," ","E","P","P">>,
     \* generic phrase with a measurement and a causal phrase: "Uso de EPP por exposicion a 85 dB"
     <<"U","s","o"," ","d","e"," ","E","P","P"," ","p","o","r"," ","e","x","p","o","s","i","c","i","o","n"," ","a"," ","8","5"," ","d","B">>,
     \* bare exam name: "Audiometria"
     <<"A","u","d","i","o","m","e","t","r","i","a">>,
     \* bare exam name with a measurement: "Audiometria 85 dB"
     <<"A","u","d","i","o","m","e","t","r","i","a"," ","8","5"," ","d","B">>,
     \* bare exam name with a diagnosis code: "Audiometria H90.3"
     <<"A","u","d","i","o","m","e","t","r","i","a"," ","H","9","0",".","3">>,
     \* generic keyword: "Pausas activas"
     <<"P","a","u","s","a","s"," ","a","c","t","i","v","a","s">>,
     \* generic keyword with a frequency bound to a cause: "Pausas activas cada 2 horas por lumbago"
     <<"P","a","u","s","a","s"," ","a","c","t","i","v","a","s"," ","c","a","d","a"," ","2"," ","h","o","r","a","s"," ","p","o","r"," ","l","u","m","b","a","g","o">>,
     \* generic keyword with a comparison against a number: "Capacitacion si IMC > 30"
     <<"C","a","p","a","c","i","t","a","c","i","o","n"," ","s","i"," ","I","M","C"," ",">"," ","3","0">>,
     \* generic phrase with a causal phrase, accented: "Uso de EPP por diagno^stico de hipoacusia"
     <<"U","s","o"," ","d","e"," ","E","P","P"," ","p","o","r"," ","d","i","a","g","n","o^","s","t","i","c","o"," ","d","e"," ","h","i","p","o","a","c","u","s","i","a">>,
     \* measurement and causal phrase: "Evitar cargas de mas de 15 kg por diagnostico de lumbago"
     <<"E","v","i","t","a","r"," ","c","a","r","g","a","s"," ","d","e"," ","m","a","s"," ","d","e"," ","1","5"," ","k","g"," ","p","o","r"," ","d","i","a","g","n","o","s","t","i","c","o"," ","d","e"," ","l","u","m","b","a","g","o">>,
     \* neither generic nor anchored: "Control con medico tratante"
     <<"C","o","n","t","r","o","l"," ","c","o","n"," ","m","e","d","i","c","o"," ","t","r","a","t","a","n","t","e">>,
     \* no description: ""
     <<>>}}

\* historia_dict['recomendaciones'] = filter_recommendations(...)
FiltrarRecomendaciones ==
    /\ pc = "idle"
    /\ entrada # SinLlamada
    /\ salida' = filter_recommendations(entrada.recomendaciones, entrada)
    /\ pc' = "recomendado"
    /\ UNCHANGED <<historias, heap, consolidada, via, fallo, codigo, veredicto, entrada>>
    /\ UNCHANGED almacenVars

InitRecomendaciones ==
    /\ SinServicio
    /\ historias = <<>>
    /\ heap = Bloques
    /\ consolidada = SinResultado
    /\ via = "none"
    /\ fallo = FALSE
    /\ codigo = <<>>
    /\ veredicto = SinVeredicto
    /\ entrada \in {[HistoriaVacia EXCEPT !.recomendaciones = l] :
                       l \in SeqsUpTo(RecomendacionesFuente, MaxRecs)}
    /\ salida = SinLlamada
    /\ pc = "idle"

NextRecomendaciones == FiltrarRecomendaciones

SpecRecomendaciones == InitRecomendaciones /\ [][NextRecomendaciones]_vars


\* the description holds an indicator of clinical context, as it is written
\* or in lower case without accents
TieneIndicadorClinico(d) ==
    SearchAny(clinical_indicators, d) \/ SearchAny(clinical_indicators, normalize_text(d))

\* C13: filter_recommendations keeps every recommendation whose description
\* holds an indicator of clinical context (a measurement with a unit, a
\* comparison against a number, a causal phrase, a diagnosis code, a
\* frequency bound to a cause), whatever generic rule it also matches, and
\* drops a description without indicator that matches a generic rule
C13_ContextoClinicoSeConserva ==
    pc = "recomendado" =>
        \A i \in DOMAIN entrada.recomendaciones :
            LET rec == entrada.recomendaciones[i]
            IN rec.descripcion # <<>> =>
                  IF TieneIndicadorClinico(rec.descripcion)
                  THEN rec \in Range(salida)
                  ELSE EsGenerica(rec.descripcion) => rec \notin Range(salida)


\* C14: the recommendations of a consolidated record have passed the
\* recommendation filter and no two of them have the same normalized
\* description, whatever their types and source records
C14_RecomendacionesFiltradasYUnicas ==
    pc = "done" =>
        LET recs == consolidada.recomendaciones
        IN /\ filter_recommendations(recs, consolidada) = recs
           /\ \A i, j \in DOMAIN recs :
                 i # j => normalize_text(recs[i].descripcion) # normalize_text(recs[j].descripcion)


\* the text is empty or one of the phrases that stand for a normal result
VacioONormal(t) ==
    LET x == LowerText(Strip(OrEmpty(t)))
    IN x = <<>> \/ x \in {TxtNormal, TxtSinHallazgos, TxtSinAlteraciones, TxtDentroDeLimites}

ConTipo == SelectSeq(Entradas(historias, "examenes"), LAMBDA e : e.tipo # "")

\* C15: a source exam that has a type is absent from the consolidated exams
\* exactly when its interpretation is normal and its findings and its result
\* are both empty or a phrase for normal; stated for source exams of
\* pairwise different types, which the merge by type and date keeps apart
C15_SoloElExamenNormalQuedaFuera ==
    pc = "done" =>
        ((\A i, j \in DOMAIN ConTipo : i # j => ConTipo[i].tipo # ConTipo[j].tipo)
            => \A k \in DOMAIN ConTipo :
                  LET e == ConTipo[k]
                  IN e \notin Range(consolidada.examenes)
                        <=> /\ e.interpretacion = "normal"
                            /\ VacioONormal(e.hallazgos_clave)
                            /\ VacioONormal(e.resultado))


\* -------------------------------------------- restriction sanitation
\* phrases for the use of protective equipment
epp_patterns ==
    <<
      \* uso de\s+(?:lentes|gafas|anteojos)
      <<"seq",<<<<"str",<<"u","s","o"," ","d","e">>>>, <<"rep",1,-1,<<"cat","s">>>>, <<"alt",<<<<"str",<<"l","e","n","t","e","s">>>>, <<"str",<<"g","a","f","a","s">>>>, <<"str",<<"a","n","t","e","o","j","o","s">>>>>>>>>>>>,
      \* uso de\s+protector(?:es)?\s+auditivo
      <<"seq",<<<<"str",<<"u","s","o"," ","d","e">>>>, <<"rep",1,-1,<<"cat","s">>>>, <<"str",<<"p","r","o","t","e","c","t","o","r">>>>, <<"rep",0,1,<<"str",<<"e","s">>>>>>, <<"rep",1,-1,<<"cat","s">>>>, <<"str",<<"a","u","d","i","t","i","v","o">>>>>>>>,
      \* uso de\s+(?:elementos|equipos)\s+de\s+protecci[oo^]n
      <<"seq",<<<<"str",<<"u","s","o"," ","d","e">>>>, <<"rep",1,-1,<<"cat","s">>>>, <<"str",<<"e">>>>, <<"alt",<<<<"str",<<"l","e","m","e","n","t","o","s">>>>, <<"str",<<"q","u","i","p","o","s">>>>>>>>, <<"rep",1,-1,<<"cat","s">>>>, <<"str",<<"d","e">>>>, <<"rep",1,-1,<<"cat","s">>>>, <<"str",<<"p","r","o","t","e","c","c","i">>>>, <<"set",{"o","o^"}>>, <<"str",<<"n">>>>>>>>,
      \* uso de\s+epp
      <<"seq",<<<<"str",<<"u","s","o"," ","d","e">>>>, <<"rep",1,-1,<<"cat","s">>>>, <<"str",<<"e","p","p">>>>>>>>,
      \* uso de\s+guantes
      <<"seq",<<<<"str",<<"u","s","o"," ","d","e">>>>, <<"rep",1,-1,<<"cat","s">>>>, <<"str",<<"g","u","a","n","t","e","s">>>>>>>>,
      \* uso de\s+casco
      <<"seq",<<<<"str",<<"u","s","o"," ","d","e">>>>, <<"rep",1,-1,<<"cat","s">>>>, <<"str",<<"c","a","s","c","o">>>>>>>>,
      \* uso de\s+mascarilla
      <<"seq",<<<<"str",<<"u","s","o"," ","d","e">>>>, <<"rep",1,-1,<<"cat","s">>>>, <<"str",<<"m","a","s","c","a","r","i","l","l","a">>>>>>>>,
      \* uso de\s+protector\s+solar
      <<"seq",<<<<"str",<<"u","s","o"," ","d","e">>>>, <<"rep",1,-1,<<"cat","s">>>>, <<"str",<<"p","r","o","t","e","c","t","o","r">>>>, <<"rep",1,-1,<<"cat","s">>>>, <<"str",<<"s","o","l","a","r">>>>>>>>,
      \* uso\s+(?:permanente|ocasional)\s+de
      <<"seq",<<<<"str",<<"u","s","o">>>>, <<"rep",1,-1,<<"cat","s">>>>, <<"alt",<<<<"str",<<"p","e","r","m","a","n","e","n","t","e">>>>, <<"str",<<"o","c","a","s","i","o","n","a","l">>>>>>>>, <<"rep",1,-1,<<"cat","s">>>>, <<"str",<<"d","e">>>>>>>>
    >>

\* phrases for a limitation of activity
restricciones_reales_patterns ==
    <<
      \* no\s+levantar
      <<"seq",<<<<"str",<<"n","o">>>>, <<"rep",1,-1,<<"cat","s">>>>, <<"str",<<"l","e","v","a","n","t","a","r">>>>>>>>,
      \* no\s+cargar
      <<"seq",<<<<"str",<<"n","o">>>>, <<"rep",1,-1,<<"cat","s">>>>, <<"str",<<"c","a","r","g","a","r">>>>>>>>,
      \* no\s+trabajar\s+en\s+altura
      <<"seq",<<<<"str",<<"n","o">>>>, <<"rep",1,-1,<<"cat","s">>>>, <<"str",<<"t","r","a","b","a","j","a","r">>>>, <<"rep",1,-1,<<"cat","s">>>>, <<"str",<<"e","n">>>>, <<"rep",1,-1,<<"cat","s">>>>, <<"str",<<"a","l","t","u","r","a">>>>>>>>,
      \* evitar\s+exposici[oo^]n\s+a
      <<"seq",<<<<"str",<<"e","v","i","t","a","r">>>>, <<"rep",1,-1,<<"cat","s">>>>, <<"str",<<"e","x","p","o","s","i","c","i">>>>, <<"set",{"o","o^"}>>, <<"str",<<"n">>>>, <<"rep",1,-1,<<"cat","s">>>>, <<"str",<<"a">>>>>>>>,
      \* no\s+conducir
      <<"seq",<<<<"str",<<"n","o">>>>, <<"rep",1,-1,<<"cat","s">>>>, <<"str",<<"c","o","n","d","u","c","i","r">>>>>>>>,
      \* no\s+trabajar\s+en\s+turno
      <<"seq",<<<<"str",<<"n","o">>>>, <<"rep",1,-1,<<"cat","s">>>>, <<"str",<<"t","r","a","b","a","j","a","r">>>>, <<"rep",1,-1,<<"cat","s">>>>, <<"str",<<"e","n">>>>, <<"rep",1,-1,<<"cat","s">>>>, <<"str",<<"t","u","r","n","o">>>>>>>>,
      \* no\s+realizar\s+movimientos
      <<"seq",<<<<"str",<<"n","o">>>>, <<"rep",1,-1,<<"cat","s">>>>, <<"str",<<"r","e","a","l","i","z","a","r">>>>, <<"rep",1,-1,<<"cat","s">>>>, <<"str",<<"m","o","v","i","m","i","e","n","t","o","s">>>>>>>>,
      \* no\s+permanecer\s+de\s+pie
      <<"seq",<<<<"str",<<"n","o">>>>, <<"rep",1,-1,<<"cat","s">>>>, <<"str",<<"p","e","r","m","a","n","e","c","e","r">>>>, <<"rep",1,-1,<<"cat","s">>>>, <<"str",<<"d","e">>>>, <<"rep",1,-1,<<"cat","s">>>>, <<"str",<<"p","i","e">>>>>>>>,
      \* limitaci[oo^]n\s+para
      <<"seq",<<<<"str",<<"l","i","m","i","t","a","c","i">>>>, <<"set",{"o","o^"}>>, <<"str",<<"n">>>>, <<"rep",1,-1,<<"cat","s">>>>, <<"str",<<"p","a","r","a">>>>>>>>,
      \* restricci[oo^]n\s+para
      <<"seq",<<<<"str",<<"r","e","s","t","r","i","c","c","i">>>>, <<"set",{"o","o^"}>>, <<"str",<<"n">>>>, <<"rep",1,-1,<<"cat","s">>>>, <<"str",<<"p","a","r","a">>>>>>>>,
      \* evitar\s+movimientos
      <<"seq",<<<<"str",<<"e","v","i","t","a","r">>>>, <<"rep",1,-1,<<"cat","s">>>>, <<"str",<<"m","o","v","i","m","i","e","n","t","o","s">>>>>>>>,
      \* evitar\s+actividades
      <<"seq",<<<<"str",<<"e","v","i","t","a","r">>>>, <<"rep",1,-1,<<"cat","s">>>>, <<"str",<<"a","c","t","i","v","i","d","a","d","e","s">>>>>>>>
    >>

\* variant: the text is cleared whenever it names protective equipment
reclassify_epp_as_recommendationsMut(historia_dict) ==
    LET restricciones == historia_dict.restricciones_especificas
    IN IF TruthyTxt(restricciones) /\ SearchAny(epp_patterns, LowerText(restricciones))
       THEN [historia_dict EXCEPT !.restricciones_especificas = NoneTxt]
       ELSE historia_dict

reclassify_epp_as_recommendations(historia_dict) ==
    LET restricciones == historia_dict.restricciones_especificas
        restricciones_lower == LowerText(restricciones)
        has_epp == SearchAny(epp_patterns, restricciones_lower)
        has_real_restrictions == SearchAny(restricciones_reales_patterns, restricciones_lower)
    IN IF ~TruthyTxt(restricciones) THEN historia_dict
       ELSE IF has_epp /\ ~has_real_restrictions
            THEN [historia_dict EXCEPT !.restricciones_especificas = NoneTxt]
            ELSE historia_dict

RestriccionesFuente ==
    {NoneTxt,
     \* equipment only
     <<"U","s","o"," ","d","e"," ","p","r","o","t","e","c","t","o","r","e","s"," ","a","u","d","i","t","i","v","o","s">>,
     \* equipment only, upper case
     <<"U","S","O"," ","P","E","R","M","A","N","E","N","T","E"," ","D","E"," ","G","A","F","A","S">>,
     \* a limitation and equipment
     <<"N","o"," ","l","e","v","a","n","t","a","r"," ","m","a","s"," ","d","e"," ","1","0","k","g",";"," ","u","s","o"," ","d","e"," ","p","r","o","t","e","c","t","o","r","e","s"," ","a","u","d","i","t","i","v","o","s">>,
     \* a limitation, accented, and equipment
     <<"E","v","i","t","a","r"," ","e","x","p","o","s","i","c","i","o^","n"," ","a"," ","r","u","i","d","o",","," ","u","s","o"," ","d","e"," ","E","P","P">>,
     \* a limitation only
     <<"N","o"," ","t","r","a","b","a","j","a","r"," ","e","n"," ","a","l","t","u","r","a">>,
     \* neither
     <<"R","e","u","b","i","c","a","c","i","o","n"," ","l","a","b","o","r","a","l">>,
     \* equipment in words that no pattern holds
     <<"U","s","o"," ","d","e"," ","p","r","o","t","e","c","c","i","o^","n"," ","a","u","d","i","t","i","v","a">>,
     \* empty
     <<>>}

\* historia_dict = reclassify_epp_as_recommendations(historia_dict)
ReclasificarEPP ==
    /\ pc = "idle"
    /\ entrada # SinLlamada
    /\ salida' = reclassify_epp_as_recommendations(entrada)
    /\ pc' = "reclasificado"
    /\ UNCHANGED <<historias, heap, consolidada, via, fallo, codigo, veredicto, entrada>>
    /\ UNCHANGED almacenVars

InitRestricciones ==
    /\ SinServicio
    /\ historias = <<>>
    /\ heap = Bloques
    /\ consolidada = SinResultado
    /\ via = "none"
    /\ fallo = FALSE
    /\ codigo = <<>>
    /\ veredicto = SinVeredicto
    /\ entrada \in {[h EXCEPT !.restricciones_especificas = t] :
                       h \in Encabezados, t \in RestriccionesFuente}
    /\ salida = SinLlamada
    /\ pc = "idle"

NextRestricciones == ReclasificarEPP

SpecRestricciones == InitRestricciones /\ [][NextRestricciones]_vars

\* C16: the sanitation sets restricciones_especificas to null exactly when
\* the text matches a phrase for the use of protective equipment and no
\* phrase for a limitation of activity; otherwise the text is returned as
\* it was, and every other field of the record is returned as it was
C16_SoloEPPSeLimpia ==
    pc = "reclasificado" =>
        LET t == entrada.restricciones_especificas
            solo_epp == /\ t # NoneTxt
                        /\ SearchAny(epp_patterns, LowerText(t))
                        /\ ~SearchAny(restricciones_reales_patterns, LowerText(t))
        IN /\ salida.restricciones_especificas = IF solo_epp THEN NoneTxt ELSE t
           /\ \A k \in DOMAIN entrada :
                 k # "restricciones_especificas" => salida[k] = entrada[k]
           /\ DOMAIN salida = DOMAIN entrada

\* a record with aptitude and a text that names a lifting limit and hearing
\* protection came back unchanged
C16_Witness ==
    /\ pc = "reclasificado"
    /\ entrada.aptitud_laboral = "apto_con_restricciones"
    /\ entrada.restricciones_especificas = <<"N","o"," ","l","e","v","a","n","t","a","r"," ","m","a","s"," ","d","e"," ","1","0","k","g",";"," ","u","s","o"," ","d","e"," ","p","r","o","t","e","c","t","o","r","e","s"," ","a","u","d","i","t","i","v","o","s">>
    /\ salida = entrada


\* the value is a bare label for an employee, in any letter case
EsEtiquetaGenerica(v) ==
    LowerText(v) \in {<<"e","m","p","l","e","a","d","o">>, <<"t","r","a","b","a","j","a","d","o","r">>, <<"p","e","r","s","o","n","a","l">>}

\* the last specific value that the records hs carry for the key
UltimoEspecifico(hs, key) ==
    LET con == SelectSeq(hs, LAMBDA h : /\ TruthyTxt(h.datos_empleado[key])
                                        /\ ~EsEtiquetaGenerica(h.datos_empleado[key]))
    IN IF con = <<>> THEN NoneTxt ELSE con[Len(con)].datos_empleado[key]

\* C17: the employee data of the consolidated record never hold a generic
\* label, whichever record brought it, so a label neither replaces a
\* specific value nor fills a key without value; a key holds the last
\* specific value of the high-priority records when there is one, and
\* otherwise the last specific value of the low-priority records
C17_EtiquetaGenericaNoEntra ==
    pc = "done" =>
        LET d == consolidada.datos_empleado
        IN /\ \A i \in DOMAIN d : ~EsEtiquetaGenerica(d[i][2])
           /\ \A key \in {"cargo", "empresa"} :
                 LET alta == UltimoEspecifico(hcs_completas(historias), key)
                     baja == UltimoEspecifico(examenes_especificos(historias), key)
                     esperado == IF alta # NoneTxt THEN alta ELSE baja
                 IN IF esperado = NoneTxt THEN ~DictHas(d, key)
                    ELSE DictHas(d, key) /\ DictGet(d, key) = esperado


\* ------------------------------------- diagnosis / exam coherence calls
MaxDiags == 2
MaxExams == 2

\* a refractive, a hearing, a respiratory and a lumbar diagnosis
DiagnosticosClinicos ==
    {Diagnostico(<<"H","5","2",".","1">>, <<"M","i","o","p","i^","a"," ","b","i","l","a","t","e","r","a","l">>, 9),
     Diagnostico(<<"H","9","0",".","3">>, <<"H","i","p","o","a","c","u","s","i","a">>, 9),
     Diagnostico(<<"J","4","5",".","0">>, <<"A","s","m","a">>, 9),
     Diagnostico(<<"M","5","4",".","5">>, <<"L","u","m","b","a","g","o">>, 9)}

\* an optometry with corrected vision, one without any indicator, an
\* audiometry that is normal in its findings, a spirometry without obstruction
ExamenesClinicos ==
    {Examen("optometria", "a", 1, "normal", <<"V","i","s","i","o^","n"," ","2","0","/","2","0"," ","c","o","n"," ","c","o","r","r","e","c","c","i","o^","n">>),
     Examen("optometria", "b", 1, "alterado", <<"A","g","u","d","e","z","a"," ","d","i","s","m","i","n","u","i","d","a">>),
     [Examen("audiometria", "c", 1, "normal", NoneTxt)
         EXCEPT !.hallazgos_clave = <<"U","m","b","r","a","l","e","s"," ","n","o","r","m","a","l","e","s">>],
     Examen("espirometria", "d", 1, "normal", <<"S","i","n"," "," ","O","b","s","t","r","u","c","c","i","o^","n">>)}

\* alertas = validate_diagnosis_exam_consistency(historia)
ValidarCoherencia ==
    /\ pc = "idle"
    /\ entrada # SinLlamada
    /\ salida' = validate_diagnosis_exam_consistency(entrada)
    /\ pc' = "coherencia"
    /\ UNCHANGED <<historias, heap, consolidada, via, fallo, codigo, veredicto, entrada>>
    /\ UNCHANGED almacenVars

InitCoherencia ==
    /\ SinServicio
    /\ historias = <<>>
    /\ heap = Bloques
    /\ consolidada = SinResultado
    /\ via = "none"
    /\ fallo = FALSE
    /\ codigo = <<>>
    /\ veredicto = SinVeredicto
    /\ entrada \in {[HistoriaVacia EXCEPT !.tipo_documento_fuente = t,
                                          !.diagnosticos = ds, !.examenes = es] :
                       t \in TIPOS_DOCUMENTO,
                       ds \in SeqsUpTo(DiagnosticosClinicos, MaxDiags),
                       es \in SeqsUpTo(ExamenesClinicos, MaxExams)}
    /\ salida = SinLlamada
    /\ pc = "idle"

NextCoherencia == ValidarCoherencia

SpecCoherencia == InitCoherencia /\ [][NextCoherencia]_vars

\* some exam of the record, of the type that measures what the diagnosis
\* names, reports a normal or corrected finding
Contradicho(d, h) ==
    \E c \in {<<VISUAL_PREFIXES, "optometria", IndicadoresVision>>,
              <<HEARING_PREFIXES, "audiometria", IndicadoresAudicion>>,
              <<RESPIRATORY_PREFIXES, "espirometria", IndicadoresPulmonar>>} :
        /\ \E p \in c[1] : StartsWith(d.codigo_cie10, p)
        /\ \E i \in DOMAIN h.examenes :
              h.examenes[i].tipo = c[2] /\ ExamenIndica(h.examenes[i], c[3])

Reflejado(exam, h) ==
    LET tipo == TipoTexto(exam.tipo)
    IN \/ \E i \in DOMAIN h.diagnosticos :
             Contains(LowerText(h.diagnosticos[i].descripcion), tipo)
       \/ \E i \in DOMAIN h.recomendaciones :
             Contains(LowerText(h.recomendaciones[i].descripcion), tipo)
       \/ Contains(LowerText(OrBlank(h.restricciones_especificas)), tipo)

\* a low-severity inconsistency alert on the exams that names the exam type
AlertaSinReflejoDe(exam, alertas) ==
    \E i \in DOMAIN alertas :
        /\ alertas[i].tipo = "inconsistencia_diagnostica"
        /\ alertas[i].severidad = "baja"
        /\ alertas[i].campo_afectado = Campo.examenes
        /\ Contains(alertas[i].descripcion, TipoTexto(exam.tipo))

\* C19: after consolidation the alerts of the consolidated record hold, for
\* every exam of the record that is altered or critical and whose type is
\* echoed nowhere in its diagnoses, recommendations and restrictions, a
\* low-severity inconsistency alert that names the exam; an exam that is
\* echoed has none
C19_ExamenAlteradoSinReflejoAlertado ==
    pc = "done" =>
        \A k \in DOMAIN consolidada.examenes :
            LET exam == consolidada.examenes[k]
            IN exam.interpretacion \in {"alterado", "critico"} =>
                  (AlertaSinReflejoDe(exam, consolidada.alertas_validacion)
                      <=> ~Reflejado(exam, consolidada))


\* -------------------------------------------------- per-document processing
INVALID_DIAGNOSIS_TERMS ==
    {<<"a","u","d","i","o","m","e","t","r">>,
     <<"r","a","y","o","s"," ","x">>,
     <<"r","a","y","o","s","-","x">>,
     <<"r","x"," ">>,
     <<"r","x",".">>,
     <<"l","a","b","o","r","a","t","o","r","i","o">>,
     <<"e","l","e","c","t","r","o","c","a","r","d","i","o","g","r","a","m","a">>,
     <<"e","c","g">>,
     <<"e","k","g">>,
     <<"e","x","a","m","e","n">>,
     <<"e","v","a","l","u","a","c","i","o^","n">>,
     <<"e","v","a","l","u","a","c","i","o","n">>,
     <<"c","o","n","t","r","o","l">>,
     <<"t","o","m","a"," ","d","e">>,
     <<"p","r","u","e","b","a">>,
     <<"e","s","p","i","r","o","m","e","t","r">>,
     <<"o","p","t","o","m","e","t","r">>,
     <<"v","i","s","i","o","m","e","t","r">>,
     <<"h","e","m","o","g","r","a","m","a">>,
     <<"g","l","i","c","e","m","i","a">>,
     <<"c","o","l","e","s","t","e","r","o","l">>,
     <<"c","r","e","a","t","i","n","i","n","a">>,
     <<"p","a","r","c","i","a","l"," ","d","e"," ","o","r","i","n","a">>,
     <<"c","o","p","r","o","l","o^","g","i","c","o">>,
     <<"c","o","p","r","o","l","o","g","i","c","o">>,
     <<"e","c","o","g","r","a","f","i^","a">>,
     <<"e","c","o","g","r","a","f","i","a">>,
     <<"r","e","s","o","n","a","n","c","i","a">>,
     <<"t","o","m","o","g","r","a","f","i^","a">>,
     <<"t","o","m","o","g","r","a","f","i","a">>,
     <<"r","a","d","i","o","g","r","a","f","i^","a">>,
     <<"r","a","d","i","o","g","r","a","f","i","a">>,
     <<"l","a","b","o","r","a","t","o","r","i","o","s">>,
     <<"p","a","r","a","c","l","i^","n","i","c","o","s">>,
     <<"p","a","r","a","c","l","i","n","i","c","o","s">>,
     <<"a","n","a^","l","i","s","i","s">>,
     <<"a","n","a","l","i","s","i","s">>,
     <<"n","o","r","m","a","l">>,
     <<"s","i","n"," ","h","a","l","l","a","z","g","o","s">>,
     <<"e","x","a","m","e","n"," ","o","c","u","p","a","c","i","o","n","a","l">>,
     <<"c","o","n","t","r","o","l"," ","r","u","t","i","n","a","r","i","o">>,
     <<"a","u","d","i","c","i","o","n"," ","n","o","r","m","a","l">>,
     <<"v","i","s","i","o","n"," ","n","o","r","m","a","l">>,
     <<"d","e","n","t","r","o"," ","d","e"," ","l","i","m","i","t","e","s"," ","n","o","r","m","a","l","e","s">>,
     <<"s","i","n"," ","a","l","t","e","r","a","c","i","o","n","e","s">>,
     <<"s","i","n"," ","p","a","t","o","l","o","g","i","a">>,
     <<"s","i","n"," ","a","n","o","r","m","a","l","i","d","a","d","e","s">>}

\* filter_invalid_diagnoses: a diagnosis stays when its description is not
\* empty and holds none of the terms
filter_invalid_diagnoses(diagnosticos) ==
    SelectSeq(diagnosticos,
              LAMBDA diag : /\ diag.descripcion # <<>>
                            /\ ~ContainsAny(Strip(LowerText(diag.descripcion)),
                                            INVALID_DIAGNOSIS_TERMS))

\* diagnoses as the extraction may return them: one of low confidence, one
\* that names a normal finding, one of full confidence, one with a short code
DiagnosticosExtraidos ==
    {Diagnostico(<<"M","5","4",".","5">>, <<"L","u","m","b","a","g","o">>, 5),
     Diagnostico(<<"H","9","0",".","3">>, <<"A","u","d","i","c","i","o^","n"," ","n","o","r","m","a","l">>, 5),
     Diagnostico(<<"H","5","2",".","1">>, <<"M","i","o","p","i^","a">>, 9),
     Diagnostico(<<"J","4","5">>, <<"A","s","m","a">>, 6)}

\* the dicts parsed from the extraction response: a header, a complete
\* header with one of the restriction texts, a record with extracted
\* recommendations, or a complete header with extracted diagnoses; the
\* response states its own confidence, and the exam and antecedent lists
\* are empty
DocumentosExtraidos ==
    {[h EXCEPT !.confianza_extraccion = <<9, 1>>] : h \in Encabezados}
    \cup {[Encabezado(t, 2, "completo") EXCEPT !.restricciones_especificas = r,
                                                 !.confianza_extraccion = <<9, 1>>] :
             t \in TIPOS_DOCUMENTO, r \in RestriccionesFuente}
    \cup {[HistoriaVacia EXCEPT !.recomendaciones = l, !.confianza_extraccion = <<9, 1>>] :
             l \in SeqsUpTo(RecomendacionesExtraidas, MaxRecs)}
    \cup {[Encabezado(t, 1, "completo") EXCEPT !.diagnosticos = l,
                                                !.confianza_extraccion = <<9, 1>>] :
             t \in TIPOS_DOCUMENTO, l \in SeqsUpTo(DiagnosticosExtraidos, MaxDiags)}

\* ClaudeProcessor.process from the parsed response on: post-processing,
\* pre-validation, schema validation, the validations on the object and the
\* alert filter; a schema error is raised to the caller
process ==
    /\ pc = "idle"
    /\ entrada # SinLlamada
    /\ \E d1 \in {LET d0 == entrada
                      diags == IF d0.diagnosticos # <<>>
                               THEN filter_invalid_diagnoses(d0.diagnosticos)
                               ELSE d0.diagnosticos
                      recs == IF d0.recomendaciones # <<>>
                              THEN deduplicate_recommendations(
                                       filter_recommendations(
                                           d0.recomendaciones,
                                           [d0 EXCEPT !.diagnosticos = diags]))
                              ELSE d0.recomendaciones
                  IN reclassify_epp_as_recommendations(
                         [d0 EXCEPT !.diagnosticos = diags, !.recomendaciones = recs])} :
          LET sv == d1.signos_vitales
              \* validate_signos_vitales writes into the dict object
              heap2 == IF sv # 0
                       THEN [heap EXCEPT ![sv] = SignosValidados(heap[sv])]
                       ELSE heap
              pre_signos == IF sv # 0 THEN AlertasSignos(heap[sv], validaciones) ELSE <<>>
              norm == normalize_aptitud_laboral(d1.aptitud_laboral)
              d2 == [d1 EXCEPT !.aptitud_laboral = norm[1]]
              alertas_preprocesamiento == pre_signos \o norm[2]
              historia == HistoriaObj(d2)
              alertas_adicionales == validate_historia_completa(historia, heap2)
          IN /\ heap' = heap2
             /\ IF ModelValidateAcepta(d2, heap2)
                THEN /\ salida' = [historia EXCEPT !.alertas_validacion =
                                      filter_alerts(historia.alertas_validacion
                                                    \o alertas_preprocesamiento
                                                    \o alertas_adicionales, historia)]
                     /\ pc' = "procesado"
                ELSE /\ salida' = salida
                     /\ pc' = "error"
    /\ UNCHANGED <<historias, consolidada, via, fallo, codigo, veredicto, entrada>>
    /\ UNCHANGED almacenVars

InitDocumento ==
    /\ SinServicio
    /\ historias = <<>>
    /\ heap = Bloques
    /\ consolidada = SinResultado
    /\ via = "none"
    /\ fallo = FALSE
    /\ codigo = <<>>
    /\ veredicto = SinVeredicto
    /\ entrada \in DocumentosExtraidos
    /\ salida = SinLlamada
    /\ pc = "idle"

NextDocumento == process

SpecDocumento == InitDocumento /\ [][NextDocumento]_vars

\* C20: the record the per-document processing returns for a source
\* document carries an empty alerts list, whatever the document holds
C20_DocumentoSinAlertas ==
    pc = "procesado" => salida.alertas_validacion = <<>>


\* C23: validate_format reports a code as valid exactly when it is one
\* letter, two digits, a dot and one digit, and gives a message with every
\* code it reports as invalid
C23_SoloLaFormaExactaEsValida ==
    veredicto.op = "formato" =>
        /\ salida[1] <=> PatternCompleto(codigo)
        /\ ~salida[1] => salida[2] # None


\* C24: validate_diagnosis_exam_consistency returns no alert for a record
\* of source type examen_especifico, whatever diagnoses and exams it holds,
\* and no alert for a record without exams
C24_SinAlertaEnExamenEspecificoNiSinExamen ==
    (/\ pc = "coherencia"
     /\ (entrada.tipo_documento_fuente = "examen_especifico" \/ entrada.examenes = <<>>))
        => salida = <<>>


\* the source antecedents of the same type as a whose description equals
\* a's once lowercased, stripped of diacritics and of extra whitespace
MismoAntecedente(a, b) ==
    /\ a.tipo = b.tipo
    /\ normalize_text(a.descripcion) = normalize_text(b.descripcion)

\* C22: the consolidated antecedents hold one entry for each type and
\* normalized description met in the sources; it carries the most recent
\* approximate date of its source entries when one of them is dated, and is
\* the first of them otherwise
C22_AntecedentesUnicosPorTextoNormalizado ==
    pc = "done" =>
        LET src == SelectSeq(Entradas(historias, "antecedentes"),
                             LAMBDA a : normalize_text(a.descripcion) # <<>>)
            out == consolidada.antecedentes
        IN /\ \A i, j \in DOMAIN out : MismoAntecedente(out[i], out[j]) => i = j
           /\ \A k \in DOMAIN src :
                 \E i \in DOMAIN out :
                    LET clase == SelectSeq(src, LAMBDA b : MismoAntecedente(src[k], b))
                    IN /\ MismoAntecedente(src[k], out[i])
                       /\ \A n \in DOMAIN clase :
                             clase[n].fecha_aproximada # NoFecha
                                => out[i].fecha_aproximada >= clase[n].fecha_aproximada
                       /\ (\A n \in DOMAIN clase : clase[n].fecha_aproximada = NoFecha)
                             => out[i] = clase[1]


\* the values of the vital-signs block a result points at
SignosDe(r) ==
    IF r.consolidada.signos_vitales = 0 THEN <<>>
    ELSE r.heap[r.consolidada.signos_vitales]

\* C29: for every input the record one consolidation entry point returns
\* has the diagnoses, exams, vital signs, aptitud and alerts of the record
\* the other entry point returns for the same input
C29_LasDosConsolidacionesCoinciden ==
    pc = "done" =>
        LET este == [consolidada |-> consolidada, heap |-> heap]
            otro == IF via = "cli" THEN ResultadoService(historias, Bloques)
                    ELSE ResultadoCli(historias, Bloques)
        IN /\ consolidada.diagnosticos = otro.consolidada.diagnosticos
           /\ consolidada.examenes = otro.consolidada.examenes
           /\ SignosDe(este) = SignosDe(otro)
           /\ consolidada.aptitud_laboral = otro.consolidada.aptitud_laboral
           /\ consolidada.alertas_validacion = otro.consolidada.alertas_validacion


\* the alert of validate_diagnosis_list for a diagnosis of confidence
\* below 0.7
EsAlertaDeConfianzaBaja(a) ==
    /\ a.tipo = "dato_faltante"
    /\ a.severidad = "media"
    /\ StartsWith(a.descripcion, Desc.ConfianzaBaja)

\* C30: the record the per-document processing returns for a document of
\* source type hc_completa holds no low-confidence-diagnosis alert
C30_ConfianzaBajaNoSobreviveEnHcCompleta ==
    (pc = "procesado" /\ salida.tipo_documento_fuente = "hc_completa")
        => \A i \in DOMAIN salida.alertas_validacion :
              ~EsAlertaDeConfianzaBaja(salida.alertas_validacion[i])

\* an hc_completa record is returned with a diagnosis of confidence 0.5,
\* for which the validator emits the alert, and its alerts do not hold it
C30_Witness ==
    /\ pc = "procesado"
    /\ salida.tipo_documento_fuente = "hc_completa"
    /\ \E k \in DOMAIN salida.diagnosticos : salida.diagnosticos[k].confianza = 5
    /\ \E i \in DOMAIN validate_diagnosis_list(salida.diagnosticos) :
          EsAlertaDeConfianzaBaja(validate_diagnosis_list(salida.diagnosticos)[i])
    /\ \A i \in DOMAIN salida.alertas_validacion :
          ~EsAlertaDeConfianzaBaja(salida.alertas_validacion[i])


\* =====================================================================
\* Surveillance programs: identifiers, catalog and evaluate_sve
\* (backend/app/services/sve_service.py)
\* =====================================================================

\* while "--" in text: text = text.replace("--", "-")
RECURSIVE CollapseDashes(_)
CollapseDashes(s) ==
    IF Len(s) < 2 THEN s
    ELSE IF s[1] = "-" /\ s[2] = "-" THEN CollapseDashes(Tail(s))
    ELSE <<Head(s)>> \o CollapseDashes(Tail(s))

\* _normalize_token: strip, lower, drop the diacritics, turn blank, '_',
\* '/', '.' and ',' into '-', collapse the runs of '-'
_normalize_token(value) ==
    IF value = NoneTxt THEN <<>>
    ELSE LET text == LowerText(Strip(value))
         IN CollapseDashes([i \in DOMAIN text |->
                               IF text[i] \in {" ", "_", "/", ".", ","} THEN "-"
                               ELSE Unaccent(text[i])])

canonicalize_sve_id(value) ==
    LET token == _normalize_token(value)
    IN IF token = <<>> THEN <<>>
       ELSE IF StartsWith(token, <<"s","v","e","-">>) THEN token
       ELSE <<"s","v","e","-">> \o token

canonicalize_sve_tokens(value) ==
    LET canonical == canonicalize_sve_id(value)
    IN IF canonical = <<>> THEN {}
       ELSE {canonical, SubSeq(canonical, 5, Len(canonical))} \ {<<>>}

\* code.split(".")[0]
RECURSIVE AntesDelPunto(_)
AntesDelPunto(code) ==
    IF code = <<>> \/ Head(code) = "." THEN <<>>
    ELSE <<Head(code)>> \o AntesDelPunto(Tail(code))

\* _code_variants: the code, the code without dots, and the part before
\* the first dot
_code_variants(code) ==
    IF code = <<>> THEN {}
    ELSE ({code, SelectSeq(code, LAMBDA ch : ch # ".")}
          \cup (IF "." \in Range(code) THEN {AntesDelPunto(code)} ELSE {})) \ {<<>>}

\* _load_entries: the entries of config/empresas/sve_catalog.json
CatalogoSVE ==
    << [sve_id |-> <<"s","v","e","-","v","i","s","u","a","l">>, nombre |-> <<"V","i","s","u","a","l">>,
        dx_cie10 |-> <<[codigo |-> <<"H","5","2",".","1">>, diagnostico |-> "Miopia"]>>],
       [sve_id |-> <<"s","v","e","-","o","s","t","e","o","m","u","s","c","u","l","a","r">>, nombre |-> <<"O","s","t","e","o","m","u","s","c","u","l","a","r">>,
        dx_cie10 |-> <<[codigo |-> <<"M","5","4",".","5">>, diagnostico |-> "Lumbago"]>>],
       [sve_id |-> NoneTxt, nombre |-> <<"D","M","E">>,
        dx_cie10 |-> <<[codigo |-> <<"m","5","4",".","4"," ">>, diagnostico |-> "Lumbago con ciatica"]>>] >>

\* entry.get("sve_id") or entry.get("nombre"), canonicalized
CanonicoDe(entry) ==
    canonicalize_sve_id(IF TruthyTxt(entry.sve_id) THEN entry.sve_id ELSE entry.nombre)

\* _catalog_indexes, by_identifier: the canonical id of the last catalog
\* entry registered under the token, <<>> when there is none
catalog_by_id(token) ==
    LET con == {i \in DOMAIN CatalogoSVE :
                   /\ CanonicoDe(CatalogoSVE[i]) # <<>>
                   /\ token \in canonicalize_sve_tokens(CatalogoSVE[i].sve_id)
                                \cup canonicalize_sve_tokens(CatalogoSVE[i].nombre)
                                \cup {CanonicoDe(CatalogoSVE[i])}}
    IN IF con = {} THEN <<>>
       ELSE CanonicoDe(CatalogoSVE[CHOOSE i \in con : \A j \in con : j <= i])

\* the diagnoses of one catalog entry registered under the variant
RECURSIVE DxDeVariante(_, _, _)
DxDeVariante(canonical, dxs, variant) ==
    IF dxs = <<>> THEN <<>>
    ELSE (IF variant \in _code_variants(Upper(Strip(OrEmpty(Head(dxs).codigo))))
          THEN <<[canonical_id |-> canonical, diagnostico |-> Head(dxs).diagnostico]>>
          ELSE <<>>) \o DxDeVariante(canonical, Tail(dxs), variant)

\* _catalog_indexes, by_code: the list kept under the variant
RECURSIVE code_map(_, _)
code_map(entries, variant) ==
    IF entries = <<>> THEN <<>>
    ELSE (IF CanonicoDe(Head(entries)) = <<>> THEN <<>>
          ELSE DxDeVariante(CanonicoDe(Head(entries)), Head(entries).dx_cie10, variant))
         \o code_map(Tail(entries), variant)

\* the catalog entries of a code: the lists of its variants, in the order
\* the set of variants is iterated, without the pairs already seen
RECURSIVE SinVistos(_, _)
SinVistos(l, seen) ==
    IF l = <<>> THEN <<>>
    ELSE IF Head(l) \in seen THEN SinVistos(Tail(l), seen)
    ELSE <<Head(l)>> \o SinVistos(Tail(l), seen \cup {Head(l)})

RECURSIVE DeVariantes(_)
DeVariantes(vs) ==
    IF vs = <<>> THEN <<>> ELSE code_map(CatalogoSVE, Head(vs)) \o DeVariantes(Tail(vs))

\* the sequences that list the elements of a set once each
Ordenes(S) == {s \in [1..Cardinality(S) -> S] : Range(s) = S}

SVE_SPECIALISTS ==
    [id \in {<<"s","v","e","-","v","i","s","u","a","l">>, <<"s","v","e","-","o","s","t","e","o","m","u","s","c","u","l","a","r">>, <<"s","v","e","-","d","m","e">>} |->
        CASE id = <<"s","v","e","-","v","i","s","u","a","l">> -> "Oftalmologia"
          [] id = <<"s","v","e","-","o","s","t","e","o","m","u","s","c","u","l","a","r">> -> "Fisiatria / Ortopedia"
          [] OTHER -> "Medicina Fisica y Rehabilitacion"]

DEFAULT_SPECIALIST == "Medicina General / EPS"

\* append item to the list held under key, creating the group first
Agregar(d, key, grupo, item) ==
    LET g == IF DictHas(d, key) THEN DictGet(d, key) ELSE grupo
    IN DictPut(d, key, [g EXCEPT !.diagnosticos = Append(@, item)])

\* the alerts loop of one code over its catalog entries
RECURSIVE AlertasDeCodigo(_, _, _, _)
AlertasDeCodigo(alertas, code, catalog_entries, empresa_canonicals) ==
    IF catalog_entries = <<>> THEN alertas
    ELSE LET entry == Head(catalog_entries)
             salta == empresa_canonicals # {} /\ entry.canonical_id \notin empresa_canonicals
         IN AlertasDeCodigo(
                IF salta THEN alertas
                ELSE Agregar(alertas, entry.canonical_id,
                             [sve_target_id |-> entry.canonical_id, diagnosticos |-> <<>>],
                             [codigo |-> code, descripcion |-> entry.diagnostico]),
                code, Tail(catalog_entries), empresa_canonicals)

\* the loop of evaluate_sve over the diagnosis codes; orden gives, for a
\* set of variants, the sequence in which it is iterated
RECURSIVE EvalLoop(_, _, _, _)
EvalLoop(r, codes, empresa_canonicals, orden) ==
    IF codes = <<>> THEN r
    ELSE LET code == Upper(Strip(OrEmpty(Head(codes))))
             catalog_entries == SinVistos(DeVariantes(orden[_code_variants(code)]), {})
             matched == \E i \in DOMAIN catalog_entries :
                           ~(empresa_canonicals # {}
                             /\ catalog_entries[i].canonical_id \notin empresa_canonicals)
             target_id == IF catalog_entries # <<>> THEN catalog_entries[1].canonical_id
                          ELSE <<>>
             especialista ==
                 IF target_id \in DOMAIN SVE_SPECIALISTS THEN SVE_SPECIALISTS[target_id]
                 ELSE DEFAULT_SPECIALIST
             paso ==
                 IF code = <<>> THEN r
                 ELSE IF matched
                      THEN [r EXCEPT !.alertas_sve =
                               AlertasDeCodigo(@, code, catalog_entries, empresa_canonicals)]
                      ELSE [r EXCEPT !.derivar_eps =
                               Agregar(@, target_id,
                                       [sve_id |-> target_id, especialista |-> especialista,
                                        diagnosticos |-> <<>>],
                                       [codigo |-> code,
                                        descripcion |-> IF catalog_entries # <<>>
                                                        THEN catalog_entries[1].diagnostico
                                                        ELSE ""])]
         IN EvalLoop(paso, Tail(codes), empresa_canonicals, orden)

evaluate_sve(diagnosticos_cie10, empresa_sve_ids, orden) ==
    LET empresa_canonicals ==
            {catalog_by_id(token) :
                token \in UNION {canonicalize_sve_tokens(empresa_sve_ids[i]) :
                                    i \in DOMAIN empresa_sve_ids}} \ {<<>>}
        r == EvalLoop([alertas_sve |-> <<>>, derivar_eps |-> <<>>],
                      diagnosticos_cie10, empresa_canonicals, orden)
    IN [alertas_sve |-> DictValues(r.alertas_sve),
        derivar_eps |-> DictValues(r.derivar_eps)]


\* ------------------------------------------------ surveillance calls
\* raw program identifiers as a company entry may hold them
IdentificadoresCrudos ==
    {p \o n : p \in {<<>>, <<"s","v","e","-">>, <<"S","V","E"," ">>, <<"_">>, <<" ">>},
              n \in {<<"v","i","s","u","a","l">>, <<"V","i","s","u","a","l"," ">>, <<"O","s","t","e","o","m","u","s","c","u","l","a","r">>, <<"d","m","e">>, <<"v","i",".","s","u","a","l">>, <<"r","u","i","d","o">>}}
    \cup {NoneTxt, <<>>, <<"-">>}

\* diagnosis codes: in the catalog, lower case with a blank, of the family
\* of two catalog programs, in no program, and none
CodigosDx == {<<"H","5","2",".","1">>, <<"h","5","2",".","1"," ">>, <<"M","5","4",".","5">>, <<"Z","9","9",".","9">>, NoneTxt}

\* the enrolled-program lists of a company
ListasDeEmpresa ==
    SeqsUpTo({<<"v","i","s","u","a","l">>, <<"_","v","i","s","u","a","l">>, <<"s","v","e","-","d","m","e">>, <<"r","u","i","d","o">>}, 1)
    \cup {<<<<"V","i","s","u","a","l">>, <<"D","M","E">>>>}

\* for each code of the list, a sequence in which its variants are iterated
OrdenesDe(codes) ==
    LET sets == {_code_variants(Upper(Strip(OrEmpty(codes[i])))) : i \in DOMAIN codes}
    IN {f \in [sets -> UNION {Ordenes(S) : S \in sets}] : \A S \in sets : f[S] \in Ordenes(S)}

\* sve_eval = evaluate_sve(diagnosticos_codes, empresa_sve_tokens)
EvaluarSVE ==
    /\ pc = "idle"
    /\ DOMAIN entrada = {"diagnosticos_cie10", "empresa_sve_ids"}
    /\ \E orden \in OrdenesDe(entrada.diagnosticos_cie10) :
          salida' = evaluate_sve(entrada.diagnosticos_cie10, entrada.empresa_sve_ids, orden)
    /\ pc' = "evaluado"
    /\ UNCHANGED <<historias, heap, consolidada, via, fallo, codigo, veredicto, entrada>>
    /\ UNCHANGED almacenVars

\* canonical = canonicalize_sve_id(token_source)
Canonicalizar ==
    /\ pc = "idle"
    /\ DOMAIN entrada = {"value"}
    /\ salida' = canonicalize_sve_id(entrada.value)
    /\ pc' = "canonico"
    /\ UNCHANGED <<historias, heap, consolidada, via, fallo, codigo, veredicto, entrada>>
    /\ UNCHANGED almacenVars

InitSVE ==
    /\ SinServicio
    /\ historias = <<>>
    /\ heap = Bloques
    /\ consolidada = SinResultado
    /\ via = "none"
    /\ fallo = FALSE
    /\ codigo = <<>>
    /\ veredicto = SinVeredicto
    /\ entrada \in {[value |-> x] : x \in IdentificadoresCrudos}
                   \cup {[diagnosticos_cie10 |-> d, empresa_sve_ids |-> e] :
                            d \in SeqsUpTo(CodigosDx, MaxDiags), e \in ListasDeEmpresa}
    /\ salida = SinLlamada
    /\ pc = "idle"

NextSVE == EvaluarSVE \/ Canonicalizar

SpecSVE == InitSVE /\ [][NextSVE]_vars

\* the canonical ids of the catalog programs that list the code or a code
\* of its family
ProgramasDe(code) ==
    {CanonicoDe(CatalogoSVE[i]) : i \in {j \in DOMAIN CatalogoSVE :
        \E v \in _code_variants(Upper(Strip(OrEmpty(code)))) :
            code_map(<<CatalogoSVE[j]>>, v) # <<>>}}

\* the catalog programs the company has enrolled
Inscritos(ids) ==
    {catalog_by_id(t) : t \in UNION {canonicalize_sve_tokens(ids[i]) : i \in DOMAIN ids}}
        \ {<<>>}

\* the codes listed in the groups of one output
CodigosEn(grupos) ==
    UNION {{grupos[i].diagnosticos[k].codigo : k \in DOMAIN grupos[i].diagnosticos} :
              i \in DOMAIN grupos}

\* C21: evaluate_sve lists a diagnosis in alertas_sve only under a catalog
\* program the company has enrolled, lists a diagnosis that matches only
\* programs the company has not enrolled in derivar_eps, and lists a
\* diagnosis that matches no catalog entry in neither output
C21_AlertaSoloBajoProgramaInscrito ==
    pc = "evaluado" =>
        LET inscritos == Inscritos(entrada.empresa_sve_ids)
        IN /\ \A i \in DOMAIN salida.alertas_sve :
                 salida.alertas_sve[i].sve_target_id \in inscritos
           /\ \A k \in DOMAIN entrada.diagnosticos_cie10 :
                 LET code == Upper(Strip(OrEmpty(entrada.diagnosticos_cie10[k])))
                     programas == ProgramasDe(code)
                 IN /\ (programas # {} /\ programas \cap inscritos = {})
                          => code \in CodigosEn(salida.derivar_eps)
                    /\ programas = {}
                          => /\ code \notin CodigosEn(salida.alertas_sve)
                             /\ code \notin CodigosEn(salida.derivar_eps)

\* C26: the canonical form of an identifier is its own canonical form, and
\* evaluate_sve returns for a list of identifiers what it returns for the
\* list of their canonical forms
C26_FormaCanonicaEsPuntoFijo ==
    /\ pc = "canonico" => canonicalize_sve_id(salida) = salida
    /\ pc = "evaluado" =>
          salida \in {evaluate_sve(entrada.diagnosticos_cie10,
                                   [i \in DOMAIN entrada.empresa_sve_ids |->
                                       canonicalize_sve_id(entrada.empresa_sve_ids[i])],
                                   orden) :
                         orden \in OrdenesDe(entrada.diagnosticos_cie10)}


\* ------------------------------------------- company configuration store
\* (backend/app/services/empresa_service.py)
MaxGes == 1
MaxSve == 2

ALLOWED_SVE_TYPES ==
    {<<"v","o","z">>, <<"a","u","d","i","t","i","v","o">>, <<"q","u","i","m","i","c","o">>, <<"c","a","r","d","i","o","v","a","s","c","u","l","a","r">>, <<"p","s","i","c","o","s","o","c","i","a","l">>,
     <<"o","s","t","e","o","m","u","s","c","u","l","a","r">>, <<"b","t","x">>, <<"b","i","o","l","o","g","i","c","o">>, <<"d","m","e">>, <<"r","a","d","i","a","c","i","o","n","e","s"," ","i","o","n","i","z","a","n","t","e","s">>}

\* a file opened for writing whose dump has not finished
Parcial == [estado |-> "parcial", empresas |-> <<>>, ges |-> <<>>, sve |-> <<>>]

\* data = _load_data(): the empty store when the file does not exist
_load_data(archivo) ==
    IF archivo.estado = "ausente"
    THEN [estado |-> "completo", empresas |-> <<>>, ges |-> <<>>, sve |-> <<>>]
    ELSE archivo

\* a company as create_empresa receives it
DatosDe(id, email) ==
    [id |-> id, nombre |-> "n1", responsable_sst_nombre |-> "r",
     responsable_sst_email |-> email, responsable_sst_telefono |-> "t"]

\* a store in which two companies have been created
DosEmpresas ==
    [estado |-> "completo", empresas |-> <<DatosDe("e1", "m"), DatosDe("e2", "m")>>,
     ges |-> <<>>, sve |-> <<>>]

\* arguments of the calls
EmpresaIds == {"e1", "e2"}
DatosEmpresa == {DatosDe("e1", "m"), DatosDe("e1", "")}
TiposCrudos == {<<" ","D","M","E"," ">>, <<"o","t","r","o">>}
ListasDeTipos == {<<>>, <<<<" ","V","o","z"," ">>, NoneTxt, <<"V","O","Z">>, <<"d","m","e">>>>, <<<<"o","t","r","o">>>>}

\* f"{empresa_id}-ges-{n}" and f"{empresa_id}-sve-{n}": the company id, the
\* kind and the number determine the text and the text determines them
IdDe(empresa_id, clase, n) == <<empresa_id, clase, n>>

\* any(e.get("id") == empresa_id for e in empresas)
ExisteEmpresa(data, empresa_id) ==
    \E i \in DOMAIN data.empresas : data.empresas[i].id = empresa_id

\* the first index of a sequence whose element satisfies the test, 0 if none
PrimerIndice(s, Cumple(_)) ==
    IF \E i \in DOMAIN s : Cumple(s[i])
    THEN CHOOSE i \in DOMAIN s : Cumple(s[i]) /\ \A j \in 1..(i - 1) : ~Cumple(s[j])
    ELSE 0

\* the cleaning loop of set_sve_list: the lowered, trimmed types, without the
\* empty ones and without repetitions, in the order given
RECURSIVE Limpios(_, _)
Limpios(tipos, cleaned) ==
    IF tipos = <<>> THEN cleaned
    ELSE LET tipo_clean == LowerText(Strip(OrEmpty(Head(tipos))))
         IN Limpios(Tail(tipos),
                    IF tipo_clean = <<>> \/ tipo_clean \in Range(cleaned)
                    THEN cleaned ELSE Append(cleaned, tipo_clean))

\* raise ValueError(f"Tipo de SVE no permitido: {tipo_clean}")
TipoNoPermitido(tipos) ==
    \E i \in DOMAIN tipos :
        LET tipo_clean == LowerText(Strip(OrEmpty(tipos[i])))
        IN tipo_clean # <<>> /\ tipo_clean \notin ALLOWED_SVE_TYPES

\* what a call leaves when its `with _lock` block ends or reaches _save_data
Resultado(data, ret, error, guarda) ==
    [data |-> data, ret |-> ret, error |-> error, guarda |-> guarda]

\* the statements of each call between data = _load_data() and _save_data(data)
BajoCandado(op, args, data) ==
    CASE op = "create_empresa" ->
            IF ExisteEmpresa(data, args.id)
            THEN Resultado(data, <<>>, TRUE, FALSE)
            ELSE Resultado([data EXCEPT !.empresas = Append(@, args)], args, FALSE, TRUE)
      [] op = "update_empresa" ->
            LET De(e) == e.id = args.empresa_id
                idx == PrimerIndice(data.empresas, De)
            IN IF idx = 0
               THEN Resultado(data, <<>>, FALSE, FALSE)
               ELSE LET new_e == [data.empresas[idx] EXCEPT !.nombre = args.updates.nombre]
                    IN Resultado([data EXCEPT !.empresas[idx] = new_e], new_e, FALSE, TRUE)
      [] op = "add_ges" ->
            IF ~ExisteEmpresa(data, args.empresa_id)
            THEN Resultado(data, <<>>, TRUE, FALSE)
            ELSE LET payload == [id |-> IdDe(args.empresa_id, "ges", Len(data.ges) + 1),
                                 empresa_id |-> args.empresa_id,
                                 cargos |-> args.ges_data.cargos]
                 IN Resultado([data EXCEPT !.ges = Append(@, payload)], payload, FALSE, TRUE)
      [] op = "update_ges" ->
            LET De(g) == g.id = args.ges_id /\ g.empresa_id = args.empresa_id
                idx == PrimerIndice(data.ges, De)
            IN IF idx = 0
               THEN Resultado(data, <<>>, FALSE, FALSE)
               ELSE LET updated == [data.ges[idx] EXCEPT !.cargos = args.updates.cargos]
                    IN Resultado([data EXCEPT !.ges[idx] = updated], updated, FALSE, TRUE)
      [] op = "add_sve" ->
            LET tipo == LowerText(Strip(OrEmpty(args.sve_data.tipo)))
                payload == [id |-> IdDe(args.empresa_id, "sve", Len(data.sve) + 1),
                            empresa_id |-> args.empresa_id,
                            tipo |-> tipo]
            IN IF \/ ~ExisteEmpresa(data, args.empresa_id)
                  \/ tipo = <<>>
                  \/ tipo \notin ALLOWED_SVE_TYPES
               THEN Resultado(data, <<>>, TRUE, FALSE)
               ELSE Resultado([data EXCEPT !.sve = Append(@, payload)], payload, FALSE, TRUE)
      [] op = "set_sve_list" ->
            LET cleaned == Limpios(args.tipos, <<>>)
                DeOtra(s) == s.empresa_id # args.empresa_id
                nuevos == [index \in 1..Len(cleaned) |->
                              [id |-> IdDe(args.empresa_id, "sve", index),
                               empresa_id |-> args.empresa_id,
                               tipo |-> cleaned[index]]]
            IN IF ~ExisteEmpresa(data, args.empresa_id)
               THEN Resultado(data, <<>>, TRUE, FALSE)
               ELSE Resultado([data EXCEPT !.sve = SelectSeq(@, DeOtra) \o nuevos],
                              <<>>, FALSE, TRUE)
      [] op = "get_empresa" ->
            LET De(e) == e.id = args.empresa_id
                DeElla(x) == x.empresa_id = args.empresa_id
                idx == PrimerIndice(data.empresas, De)
            IN IF idx = 0
               THEN Resultado(data, <<>>, FALSE, FALSE)
               ELSE Resultado(data, [empresa |-> data.empresas[idx],
                                     ges |-> SelectSeq(data.ges, DeElla),
                                     sve |-> SelectSeq(data.sve, DeElla)], FALSE, FALSE)

\* `with _lock:` takes the lock without waiting for it
AdquirirSinEsperar(h) == candado' = h

\* `with _lock:` blocks until no thread holds the lock, then takes it
Adquirir(h) == candado = Nadie /\ candado' = h

\* the thread when its call returns or raises: what set_sve_list returns is
\* kept until the caller has it, what the other calls return is not kept
AlVolver(hilo, ret, error) ==
    IF hilo.op = "set_sve_list"
    THEN [hilo EXCEPT !.pc = "retorno", !.data = Ausente, !.ret = ret, !.error = error]
    ELSE HiloLibre

\* a free thread starts a call, which reaches its `with _lock` block
Entrar(h, op, args) ==
    /\ hilos[h].pc = "libre"
    /\ Adquirir(h)
    /\ hilos' = [hilos EXCEPT ![h] = [HiloLibre EXCEPT !.pc = "dentro", !.op = op, !.args = args]]
    /\ UNCHANGED <<almacen, temporal>>
    /\ UNCHANGED documentoVars

\* a free thread starts a call, which raises before its `with _lock` block
Rechazar(h, op, args) ==
    /\ hilos[h].pc = "libre"
    /\ hilos' = [hilos EXCEPT ![h] = AlVolver([HiloLibre EXCEPT !.op = op, !.args = args],
                                              <<>>, TRUE)]
    /\ UNCHANGED <<almacen, temporal, candado>>
    /\ UNCHANGED documentoVars

create_empresa(h) ==
    \E data_in \in DatosEmpresa :
        IF \E field \in {"nombre", "responsable_sst_nombre", "responsable_sst_email",
                            "responsable_sst_telefono"} : data_in[field] = ""
        THEN Rechazar(h, "create_empresa", data_in)
        ELSE Entrar(h, "create_empresa", data_in)

update_empresa(h) ==
    \E empresa_id \in {"e1"} :
        Entrar(h, "update_empresa", [empresa_id |-> empresa_id, updates |-> [nombre |-> "n2"]])

add_ges(h) ==
    \E empresa_id \in {"e1"} :
        /\ Len(almacen.ges) < MaxGes
        /\ Entrar(h, "add_ges", [empresa_id |-> empresa_id, ges_data |-> [cargos |-> <<>>]])

update_ges(h) ==
    \E empresa_id \in {"e1"}, n \in 1..MaxGes :
        Entrar(h, "update_ges", [empresa_id |-> empresa_id,
                                 ges_id |-> IdDe(empresa_id, "ges", n),
                                 updates |-> [cargos |-> <<"operario">>]])

add_sve(h) ==
    \E empresa_id \in EmpresaIds, tipo \in TiposCrudos :
        /\ Len(almacen.sve) < MaxSve
        /\ Entrar(h, "add_sve", [empresa_id |-> empresa_id, sve_data |-> [tipo |-> tipo]])

set_sve_list(h) ==
    \E empresa_id \in EmpresaIds, tipos \in ListasDeTipos :
        LET DeOtra(s) == s.empresa_id # empresa_id
            args == [empresa_id |-> empresa_id, tipos |-> tipos]
        IN /\ Len(SelectSeq(almacen.sve, DeOtra)) + Len(Limpios(tipos, <<>>)) <= MaxSve
           /\ IF TipoNoPermitido(tipos)
              THEN Rechazar(h, "set_sve_list", args)
              ELSE Entrar(h, "set_sve_list", args)

get_empresa(h) ==
    \E empresa_id \in {"e1"} :
        Entrar(h, "get_empresa", [empresa_id |-> empresa_id])

\* inside the lock: data = _load_data() and the statements up to _save_data,
\* or up to the end of the block when the call does not save
Cargar(h) ==
    /\ hilos[h].pc = "dentro"
    /\ \E r \in {IF almacen.estado = "parcial"
                 THEN Resultado(almacen, <<>>, TRUE, FALSE)
                 ELSE BajoCandado(hilos[h].op, hilos[h].args, _load_data(almacen))} :
          IF r.guarda
          THEN /\ hilos' = [hilos EXCEPT ![h].pc = "abrir", ![h].data = r.data]
               /\ UNCHANGED candado
          ELSE /\ hilos' = [hilos EXCEPT ![h] = AlVolver(@, r.ret, r.error)]
               /\ candado' = Nadie
    /\ UNCHANGED <<almacen, temporal>>
    /\ UNCHANGED documentoVars

\* _save_data: tmp_path.open("w") truncates the temporary file
AbrirTemporal(h) ==
    /\ hilos[h].pc = "abrir"
    /\ temporal' = Parcial
    /\ hilos' = [hilos EXCEPT ![h].pc = "volcar"]
    /\ UNCHANGED <<almacen, candado>>
    /\ UNCHANGED documentoVars

\* _save_data: json.dump(data, f) and the end of the `with` that closes it
Volcar(h) ==
    /\ hilos[h].pc = "volcar"
    /\ temporal' = hilos[h].data
    /\ hilos' = [hilos EXCEPT ![h].pc = "reemplazar"]
    /\ UNCHANGED <<almacen, candado>>
    /\ UNCHANGED documentoVars

\* _save_data: tmp_path.replace(DATA_PATH); it raises when there is no
\* temporary file, which leaves the `with _lock` block
Reemplazar(h) ==
    /\ hilos[h].pc = "reemplazar"
    /\ IF temporal.estado = "ausente"
       THEN /\ hilos' = [hilos EXCEPT ![h] = AlVolver(@, <<>>, TRUE)]
            /\ candado' = Nadie
            /\ UNCHANGED <<almacen, temporal>>
       ELSE /\ almacen' = temporal
            /\ temporal' = Ausente
            /\ hilos' = [hilos EXCEPT ![h].pc = "salir"]
            /\ UNCHANGED candado
    /\ UNCHANGED documentoVars

\* the end of the `with _lock` block of a call that saved
Salir(h) ==
    /\ hilos[h].pc = "salir"
    /\ candado' = Nadie
    /\ hilos' = [hilos EXCEPT ![h] = IF @.op = "set_sve_list"
                                     THEN [@ EXCEPT !.pc = "releer", !.data = Ausente]
                                     ELSE HiloLibre]
    /\ UNCHANGED <<almacen, temporal>>
    /\ UNCHANGED documentoVars

\* set_sve_list: the second `with _lock`
Releer(h) ==
    /\ hilos[h].pc = "releer"
    /\ Adquirir(h)
    /\ hilos' = [hilos EXCEPT ![h].pc = "dentro2"]
    /\ UNCHANGED <<almacen, temporal>>
    /\ UNCHANGED documentoVars

\* set_sve_list: data = _load_data(); return the entries of the company
Devolver(h) ==
    /\ hilos[h].pc = "dentro2"
    /\ LET DeElla(s) == s.empresa_id = hilos[h].args.empresa_id
       IN hilos' = [hilos EXCEPT ![h].pc = "retorno",
                                 ![h].ret = SelectSeq(_load_data(almacen).sve, DeElla),
                                 ![h].error = almacen.estado = "parcial"]
    /\ candado' = Nadie
    /\ UNCHANGED <<almacen, temporal>>
    /\ UNCHANGED documentoVars

\* the caller has the returned value or the exception; the thread is free
Retornar(h) ==
    /\ hilos[h].pc = "retorno"
    /\ hilos' = [hilos EXCEPT ![h] = HiloLibre]
    /\ UNCHANGED <<almacen, temporal, candado>>
    /\ UNCHANGED documentoVars

InitAlmacen ==
    /\ historias = <<>>
    /\ heap = Bloques
    /\ consolidada = SinResultado
    /\ pc = "idle"
    /\ via = "none"
    /\ fallo = FALSE
    /\ codigo = <<>>
    /\ veredicto = SinVeredicto
    /\ entrada = SinLlamada
    /\ salida = SinLlamada
    /\ almacen \in {Ausente, DosEmpresas}
    /\ temporal = Ausente
    /\ candado = Nadie
    /\ hilos = [h \in Hilos |-> HiloLibre]

NextAlmacen ==
    \E h \in Hilos :
        \/ create_empresa(h)
        \/ update_empresa(h)
        \/ add_ges(h)
        \/ update_ges(h)
        \/ add_sve(h)
        \/ set_sve_list(h)
        \/ get_empresa(h)
        \/ Cargar(h)
        \/ AbrirTemporal(h)
        \/ Volcar(h)
        \/ Reemplazar(h)
        \/ Salir(h)
        \/ Releer(h)
        \/ Devolver(h)
        \/ Retornar(h)

SpecAlmacen == InitAlmacen /\ [][NextAlmacen]_vars


\* the threads inside a `with _lock` block
EnSeccion == {h \in Hilos : hilos[h].pc \in {"dentro", "abrir", "volcar", "reemplazar",
                                              "salir", "dentro2"}}

\* C25: under every interleaving of create_empresa, update_empresa, add_ges,
\* update_ges, add_sve and set_sve_list, at most one thread is inside a
\* `with _lock` block; what a writer is about to install, and what it has
\* installed until it releases the lock, is its operation applied to the
\* store as it is now, so no write of another thread is lost; and neither
\* the data file nor what a thread loaded from it under the lock is a
\* partially written store
C25_EscriturasBajoExclusionMutua ==
    /\ Cardinality(EnSeccion) <= 1
    /\ almacen.estado # "parcial"
    /\ \A h \in Hilos :
          /\ hilos[h].data.estado # "parcial"
          /\ hilos[h].pc \in {"abrir", "volcar", "reemplazar"} =>
                hilos[h].data = BajoCandado(hilos[h].op, hilos[h].args, _load_data(almacen)).data
          /\ hilos[h].pc = "salir" => hilos[h].data = almacen

\* two writers overlap: one thread has saved the two entries of a company's
\* list and waits for its second `with _lock`, the other has just replaced
\* the data file with a store that holds those entries and its new group
C25_Witness ==
    \E h \in Hilos, k \in Hilos :
        /\ hilos[h].pc = "releer"
        /\ Len(Limpios(hilos[h].args.tipos, <<>>)) = 2
        /\ hilos[k].pc = "salir"
        /\ hilos[k].op = "add_ges"
        /\ Len(almacen.sve) = 2
        /\ Len(almacen.ges) = 1

\* C27: no two surveillance-program entries of the store have the same id
C27_IdsDeSveUnicos ==
    \A i \in DOMAIN almacen.sve, j \in DOMAIN almacen.sve :
        i # j => almacen.sve[i].id # almacen.sve[j].id

\* C28: what set_sve_list returns is the entries it wrote for the company:
\* one per distinct cleaned type, in the order given, numbered from 1
C28_SetSveListDevuelveLoEscrito ==
    \A h \in Hilos :
        (hilos[h].pc = "retorno" /\ hilos[h].op = "set_sve_list" /\ ~hilos[h].error) =>
            LET cleaned == Limpios(hilos[h].args.tipos, <<>>)
            IN hilos[h].ret = [index \in 1..Len(cleaned) |->
                                  [id |-> IdDe(hilos[h].args.empresa_id, "sve", index),
                                   empresa_id |-> hilos[h].args.empresa_id,
                                   tipo |-> cleaned[index]]]

====
